---- MODULE Spec2Model ----
(***************************************************************************)
(* Model of the task-log ingestion pipeline of the Habit Projects backend  *)
(* (backend/app/services/task_logs.py, backend/app/services/rewards.py,    *)
(* backend/app/api/task_logs.py).                                          *)
(*                                                                         *)
(* Instants are integer hours since 1970-01-01T00:00 UTC, calendar dates   *)
(* are integer days since 1970-01-01, decimal quantities are integers in   *)
(* units of 1/Scale.  An Optional value is <<>> (None) or <<v>>.           *)
(***************************************************************************)
EXTENDS Integers, Sequences, FiniteSets, TLC

VARIABLES
    db,      \* committed database tables
    tx,      \* per request: position in the handler, payload, session
    hist,    \* calls made so far on the stand-alone session `sess`
    sess,    \* a stand-alone session driven call by call (unit level)
    args,    \* arguments of a stand-alone resolve_rewards call
    ret      \* its return value, <<>> before the call

vars == <<db, tx, hist, sess, args, ret>>

----------------------------------------------------------------------------
(* Bounds of the model *)

MaxCalls == 4

MaxInFlight == 2

MaxTxn == 3

MaxValidated == 2

MaxAccepted == 3

----------------------------------------------------------------------------
(* Optional values, decimals, small helpers *)

None == <<>>

Some(v) == <<v>>

IsNone(o) == o = <<>>

Get(o) == o[1]

Scale == 100

\* int() of a Decimal n/d (d > 0): truncation toward zero
Trunc(n, d) == IF n >= 0 THEN n \div d ELSE -((-n) \div d)

Max2(a, b) == IF a >= b THEN a ELSE b

RECURSIVE SumSeq(_)
SumSeq(s) == IF s = <<>> THEN 0 ELSE Head(s) + SumSeq(Tail(s))

Range(s) == {s[i] : i \in DOMAIN s}

----------------------------------------------------------------------------
(* Level thresholds and the level loop: task_logs.py *)

LevelBase == 100

LevelStep == 25

\* a threshold that grows from level 1 on
xp_to_next_from_level(level) == LevelBase + Max2(level, 0) * LevelStep

xp_to_next(level) == LevelBase + Max2(level - 1, 0) * LevelStep

NewLevel(now) ==
    [current_level |-> 1, current_xp |-> 0, xp_to_next |-> xp_to_next(1),
     last_update_at |-> now]

\* the while loop of update_level
RECURSIVE LevelLoop(_)
LevelLoop(l) ==
    IF l.current_xp >= l.xp_to_next
    THEN LevelLoop([l EXCEPT !.current_xp = l.current_xp - l.xp_to_next,
                             !.current_level = l.current_level + 1,
                             !.xp_to_next = xp_to_next(l.current_level + 1)])
    ELSE l

\* a level loop that runs its body at most once
LevelLoopOnce(l) ==
    IF l.current_xp >= l.xp_to_next
    THEN [l EXCEPT !.current_xp = l.current_xp - l.xp_to_next,
                   !.current_level = l.current_level + 1,
                   !.xp_to_next = xp_to_next(l.current_level + 1)]
    ELSE l

update_level_once(level, xp_awarded, occurred_at) ==
    LET added == [level EXCEPT !.current_xp = level.current_xp + xp_awarded]
        looped == LevelLoopOnce(added)
        leveled_up == looped.current_level # level.current_level
    IN IF leveled_up \/ xp_awarded # 0
       THEN [looped EXCEPT !.last_update_at = occurred_at]
       ELSE looped

\* an update that drops the XP left over after a level-up
update_level_reset(level, xp_awarded, occurred_at) ==
    LET added == [level EXCEPT !.current_xp = level.current_xp + xp_awarded]
        looped == LevelLoop(added)
        leveled_up == looped.current_level # level.current_level
    IN IF leveled_up
       THEN [looped EXCEPT !.current_xp = 0, !.last_update_at = occurred_at]
       ELSE IF xp_awarded # 0
            THEN [looped EXCEPT !.last_update_at = occurred_at]
            ELSE looped

\* an update that stamps last_update_at on every call
update_level_stamps_always(level, xp_awarded, occurred_at) ==
    LET added == [level EXCEPT !.current_xp = level.current_xp + xp_awarded]
        looped == LevelLoop(added)
    IN [looped EXCEPT !.last_update_at = occurred_at]

update_level(level, xp_awarded, occurred_at) ==
    LET added == [level EXCEPT !.current_xp = level.current_xp + xp_awarded]
        looped == LevelLoop(added)
        leveled_up == looped.current_level # level.current_level
    IN IF leveled_up \/ xp_awarded # 0
       THEN [looped EXCEPT !.last_update_at = occurred_at]
       ELSE looped

----------------------------------------------------------------------------
(* Tables and sessions.                                                    *)
(* A table with a primary key or unique constraint is a function from the  *)
(* key; a table whose rows are only identified by a generated uuid is a    *)
(* set of rows carrying that id.  A session holds the rows as the ORM      *)
(* objects have them (mem) and as the SQL statements of the transaction    *)
(* see them (flushed).                                                     *)

EmptyFn == [x \in {} |-> 0]

EmptyTables ==
    [logs |-> EmptyFn, xp_events |-> {}, levels |-> EmptyFn,
     streaks |-> EmptyFn, snaps |-> EmptyFn,
     user_rewards |-> {}, user_cosmetics |-> {}]

NewSession(tables) == [mem |-> tables, flushed |-> tables]

flush(S) == [S EXCEPT !.flushed = S.mem]

\* sessionmaker(autoflush=...): whether a query first flushes the session
autoflush == TRUE

BeforeQuery(S) == IF autoflush THEN flush(S) ELSE S

get_or_create_level(S, user, now) ==
    IF user \in DOMAIN S.flushed.levels
    THEN S
    ELSE flush([S EXCEPT !.mem.levels = @ @@ (user :> NewLevel(now))])

NewStreak ==
    [current_streak_days |-> 0, best_streak_days |-> 0,
     last_activity_date |-> None]

\* a streak step that counts every event, also a second one on a date
StreakStepCountsEvents(streak, occurred_date) ==
    LET moved ==
            IF \/ streak.last_activity_date = Some(occurred_date)
               \/ /\ ~IsNone(streak.last_activity_date)
                  /\ occurred_date = Get(streak.last_activity_date) + 1
            THEN [streak EXCEPT
                    !.current_streak_days = streak.current_streak_days + 1,
                    !.last_activity_date = Some(occurred_date)]
            ELSE [streak EXCEPT
                    !.current_streak_days = 1,
                    !.last_activity_date = Some(occurred_date)]
    IN IF moved.current_streak_days > moved.best_streak_days
       THEN [moved EXCEPT !.best_streak_days = moved.current_streak_days]
       ELSE moved

\* a streak step that goes on counting after a gap
StreakStepOverGap(streak, occurred_date) ==
    LET moved ==
            IF streak.last_activity_date = Some(occurred_date)
            THEN streak
            ELSE IF /\ ~IsNone(streak.last_activity_date)
                    /\ occurred_date > Get(streak.last_activity_date)
                 THEN [streak EXCEPT
                         !.current_streak_days = streak.current_streak_days + 1,
                         !.last_activity_date = Some(occurred_date)]
                 ELSE [streak EXCEPT
                         !.current_streak_days = 1,
                         !.last_activity_date = Some(occurred_date)]
    IN IF moved.current_streak_days > moved.best_streak_days
       THEN [moved EXCEPT !.best_streak_days = moved.current_streak_days]
       ELSE moved

\* a streak step that compares with the best streak before the branch
StreakStepStale(streak, occurred_date) ==
    LET best == IF streak.current_streak_days > streak.best_streak_days
                THEN streak.current_streak_days
                ELSE streak.best_streak_days
    IN IF streak.last_activity_date = Some(occurred_date)
       THEN [streak EXCEPT !.best_streak_days = best]
       ELSE IF /\ ~IsNone(streak.last_activity_date)
               /\ occurred_date = Get(streak.last_activity_date) + 1
            THEN [streak EXCEPT
                    !.current_streak_days = streak.current_streak_days + 1,
                    !.last_activity_date = Some(occurred_date),
                    !.best_streak_days = best]
            ELSE [streak EXCEPT
                    !.current_streak_days = 1,
                    !.last_activity_date = Some(occurred_date),
                    !.best_streak_days = best]

\* the branch on last_activity_date, then the best-streak update
StreakStep(streak, occurred_date) ==
    LET moved ==
            IF streak.last_activity_date = Some(occurred_date)
            THEN streak
            ELSE IF /\ ~IsNone(streak.last_activity_date)
                    /\ occurred_date = Get(streak.last_activity_date) + 1
                 THEN [streak EXCEPT
                         !.current_streak_days = streak.current_streak_days + 1,
                         !.last_activity_date = Some(occurred_date)]
                 ELSE [streak EXCEPT
                         !.current_streak_days = 1,
                         !.last_activity_date = Some(occurred_date)]
    IN IF moved.current_streak_days > moved.best_streak_days
       THEN [moved EXCEPT !.best_streak_days = moved.current_streak_days]
       ELSE moved

\* an update that steps the streaks of all the categories of the user
update_streak_all_categories(S, user_id, domain_id, occurred_date) ==
    LET key == <<user_id, domain_id>>
        Q == BeforeQuery(S)
        S1 == IF key \in DOMAIN Q.flushed.streaks
              THEN Q
              ELSE flush([Q EXCEPT !.mem.streaks = @ @@ (key :> NewStreak)])
    IN [S1 EXCEPT !.mem.streaks =
           [k \in DOMAIN @ |->
               IF k[1] = user_id THEN StreakStep(@[k], occurred_date)
               ELSE @[k]]]

update_streak(S, user_id, domain_id, occurred_date) ==
    LET key == <<user_id, domain_id>>
        Q == BeforeQuery(S)
        S1 == IF key \in DOMAIN Q.flushed.streaks
              THEN Q
              ELSE flush([Q EXCEPT !.mem.streaks = @ @@ (key :> NewStreak)])
    IN [S1 EXCEPT !.mem.streaks[key] = StreakStep(@, occurred_date)]

NewSnapshot(now) == [points_total |-> 0, xp_total |-> 0, computed_at |-> now]

\* a snapshot update that stores the deltas instead of adding them
update_snapshot_overwrite(S, user_id, domain_id, period, start_date, xp_awarded, points_awarded, occurred_at, now) ==
    LET key == <<user_id, domain_id, period, start_date>>
        Q == BeforeQuery(S)
        S1 == IF key \in DOMAIN Q.flushed.snaps
              THEN Q
              ELSE flush([Q EXCEPT !.mem.snaps = @ @@ (key :> NewSnapshot(now))])
    IN [S1 EXCEPT !.mem.snaps[key] =
           [points_total |-> points_awarded,
            xp_total |-> xp_awarded,
            computed_at |-> occurred_at]]

update_snapshot(S, user_id, domain_id, period, start_date, xp_awarded, points_awarded, occurred_at, now) ==
    LET key == <<user_id, domain_id, period, start_date>>
        Q == BeforeQuery(S)
        S1 == IF key \in DOMAIN Q.flushed.snaps
              THEN Q
              ELSE flush([Q EXCEPT !.mem.snaps = @ @@ (key :> NewSnapshot(now))])
    IN [S1 EXCEPT !.mem.snaps[key] =
           [points_total |-> @.points_total + points_awarded,
            xp_total |-> @.xp_total + xp_awarded,
            computed_at |-> occurred_at]]

\* date.weekday(): Monday is 0; 1970-01-01 was a Thursday
weekday(d) == (d + 3) % 7

\* a week start that falls on the Sunday
sunday_start(date_value) == date_value - ((weekday(date_value) + 1) % 7)

monday_start(date_value) == date_value - weekday(date_value)

----------------------------------------------------------------------------
(* Period windows: compute_period_window of api/users.py.  A datetime is   *)
(* its wall clock in hours since 1970-01-01T00:00 of its own zone; the     *)
(* microsecond the code subtracts from the end of a window is one Tick,    *)
(* the smallest step of this clock.                                        *)

Tick == 1

IsLeap(y) == (y % 4 = 0 /\ y % 100 # 0) \/ y % 400 = 0

DaysInMonth(y, m) ==
    IF m = 2 THEN (IF IsLeap(y) THEN 29 ELSE 28)
    ELSE IF m \in {4, 6, 9, 11} THEN 30 ELSE 31

\* date(y, m, 1) as days since 1970-01-01, for y >= 1970
RECURSIVE FirstOfMonth(_, _)
FirstOfMonth(y, m) ==
    IF y <= 1970 /\ m <= 1 THEN 0
    ELSE IF m = 1 THEN FirstOfMonth(y - 1, 12) + DaysInMonth(y - 1, 12)
    ELSE FirstOfMonth(y, m - 1) + DaysInMonth(y, m - 1)

\* the year and month of a day
RECURSIVE YearMonthFrom(_, _, _)
YearMonthFrom(day, y, m) ==
    IF day < FirstOfMonth(y, m) + DaysInMonth(y, m)
    THEN [year |-> y, month |-> m]
    ELSE IF m = 12 THEN YearMonthFrom(day, y + 1, 1)
    ELSE YearMonthFrom(day, y, m + 1)

YearMonthOf(day) == YearMonthFrom(day, 1970, 1)

\* an add_months that leaves the year as it is
add_months_same_year(start, months) ==
    LET total_months == (start.year * 12 + (start.month - 1)) + months
    IN [year |-> start.year, month |-> (total_months % 12) + 1]

\* add_months, on the first day of a month at 00:00
add_months(start, months) ==
    LET total_months == (start.year * 12 + (start.month - 1)) + months
    IN [year |-> total_months \div 12, month |-> (total_months % 12) + 1]

\* a window that ends on the first instant of the next block
compute_period_window_closed_end(period, now, first_day_of_week, interval) ==
    LET normalized_interval == Max2(interval, 1)
        normalized_first_day == first_day_of_week % 7
        today == now \div 24
        start_of_day == today * 24
    IN IF period = "day"
       THEN LET offset_days == today % normalized_interval
                period_start == start_of_day - offset_days * 24
            IN [start |-> period_start,
                end |-> period_start + normalized_interval * 24]
       ELSE IF period = "week"
       THEN LET days_difference == (weekday(today) - normalized_first_day) % 7
                current_week_start == today - days_difference
                baseline == 4
                baseline_adjustment ==
                    (weekday(baseline) - normalized_first_day) % 7
                aligned_baseline == baseline - baseline_adjustment
                weeks_since_baseline ==
                    (current_week_start - aligned_baseline) \div 7
                block_start_weeks ==
                    weeks_since_baseline
                        - (weeks_since_baseline % normalized_interval)
                period_start == (aligned_baseline + 7 * block_start_weeks) * 24
            IN [start |-> period_start,
                end |-> period_start + normalized_interval * 7 * 24]
       ELSE IF period = "month"
       THEN LET first == YearMonthOf(today)
                baseline_start == [year |-> 1970, month |-> 1]
                months_since_baseline ==
                    (first.year - baseline_start.year) * 12
                        + (first.month - baseline_start.month)
                block_start_months ==
                    months_since_baseline
                        - (months_since_baseline % normalized_interval)
                period_start == add_months(baseline_start, block_start_months)
                next_period_start ==
                    add_months(period_start, normalized_interval)
            IN [start |-> FirstOfMonth(period_start.year,
                                       period_start.month) * 24,
                end |-> FirstOfMonth(next_period_start.year,
                                     next_period_start.month) * 24]
       ELSE [start |-> start_of_day,
             end |-> start_of_day + normalized_interval * 24]

\* a window whose day blocks begin on the day of the instant
compute_period_window_from_today(period, now, first_day_of_week, interval) ==
    LET normalized_interval == Max2(interval, 1)
        normalized_first_day == first_day_of_week % 7
        today == now \div 24
        start_of_day == today * 24
    IN IF period = "day"
       THEN LET offset_days == 0
                period_start == start_of_day - offset_days * 24
            IN [start |-> period_start,
                end |-> period_start + normalized_interval * 24 - Tick]
       ELSE IF period = "week"
       THEN LET days_difference == (weekday(today) - normalized_first_day) % 7
                current_week_start == today - days_difference
                baseline == 4
                baseline_adjustment ==
                    (weekday(baseline) - normalized_first_day) % 7
                aligned_baseline == baseline - baseline_adjustment
                weeks_since_baseline ==
                    (current_week_start - aligned_baseline) \div 7
                block_start_weeks ==
                    weeks_since_baseline
                        - (weeks_since_baseline % normalized_interval)
                period_start == (aligned_baseline + 7 * block_start_weeks) * 24
            IN [start |-> period_start,
                end |-> period_start + normalized_interval * 7 * 24 - Tick]
       ELSE IF period = "month"
       THEN LET first == YearMonthOf(today)
                baseline_start == [year |-> 1970, month |-> 1]
                months_since_baseline ==
                    (first.year - baseline_start.year) * 12
                        + (first.month - baseline_start.month)
                block_start_months ==
                    months_since_baseline
                        - (months_since_baseline % normalized_interval)
                period_start == add_months(baseline_start, block_start_months)
                next_period_start ==
                    add_months(period_start, normalized_interval)
            IN [start |-> FirstOfMonth(period_start.year,
                                       period_start.month) * 24,
                end |-> FirstOfMonth(next_period_start.year,
                                     next_period_start.month) * 24 - Tick]
       ELSE [start |-> start_of_day,
             end |-> start_of_day + normalized_interval * 24 - Tick]

compute_period_window(period, now, first_day_of_week, interval) ==
    LET normalized_interval == Max2(interval, 1)
        normalized_first_day == first_day_of_week % 7
        today == now \div 24
        start_of_day == today * 24
    IN IF period = "day"
       THEN LET offset_days == today % normalized_interval
                period_start == start_of_day - offset_days * 24
            IN [start |-> period_start,
                end |-> period_start + normalized_interval * 24 - Tick]
       ELSE IF period = "week"
       THEN LET days_difference == (weekday(today) - normalized_first_day) % 7
                current_week_start == today - days_difference
                baseline == 4
                baseline_adjustment ==
                    (weekday(baseline) - normalized_first_day) % 7
                aligned_baseline == baseline - baseline_adjustment
                weeks_since_baseline ==
                    (current_week_start - aligned_baseline) \div 7
                block_start_weeks ==
                    weeks_since_baseline
                        - (weeks_since_baseline % normalized_interval)
                period_start == (aligned_baseline + 7 * block_start_weeks) * 24
            IN [start |-> period_start,
                end |-> period_start + normalized_interval * 7 * 24 - Tick]
       ELSE IF period = "month"
       THEN LET first == YearMonthOf(today)
                baseline_start == [year |-> 1970, month |-> 1]
                months_since_baseline ==
                    (first.year - baseline_start.year) * 12
                        + (first.month - baseline_start.month)
                block_start_months ==
                    months_since_baseline
                        - (months_since_baseline % normalized_interval)
                period_start == add_months(baseline_start, block_start_months)
                next_period_start ==
                    add_months(period_start, normalized_interval)
            IN [start |-> FirstOfMonth(period_start.year,
                                       period_start.month) * 24,
                end |-> FirstOfMonth(next_period_start.year,
                                     next_period_start.month) * 24 - Tick]
       ELSE [start |-> start_of_day,
             end |-> start_of_day + normalized_interval * 24 - Tick]

\* inputs of the stand-alone compute_period_window calls
MaxWindowDay == 20

MaxInterval == 3

WindowHours == {0, 10, 23}

WindowArgs ==
    [period : {"day", "week", "month"},
     now : {day * 24 + h : day \in 0..MaxWindowDay, h \in WindowHours},
     first_day_of_week : 0..6,
     interval : 0..MaxInterval]

\* inputs for the month windows: the first, the fifteenth and the last day
\* of each of the months 1970-01 .. 1970-01 + MaxMonth
MaxMonth == 26

MaxMonthInterval == 12

MonthDays ==
    UNION {LET first == add_months([year |-> 1970, month |-> 1], k)
               day == FirstOfMonth(first.year, first.month)
           IN {day, day + 14,
               day + DaysInMonth(first.year, first.month) - 1} :
           k \in 0..MaxMonth}

MonthWindowArgs ==
    [period : {"month"},
     now : {day * 24 + h : day \in MonthDays, h \in {0, 23}},
     first_day_of_week : {1},
     interval : 0..MaxMonthInterval]

InitWindow ==
    /\ args \in WindowArgs \cup MonthWindowArgs
    /\ ret = None

CallComputePeriodWindow ==
    /\ ret = None
    /\ ret' = Some(compute_period_window(args.period, args.now,
                                         args.first_day_of_week,
                                         args.interval))
    /\ UNCHANGED args

----------------------------------------------------------------------------
(* Unit level: one session driven call by call.  hist records the calls.   *)

UnitUser == "u1"

UnitInstants == {10, 20}

LevelDeltas == {0, 25, 50, 75, 100, 125, 250}

StreakDomains == {1, 2}

MaxDate == 5

SnapKeys ==
    {<<"u1", 1, "day", 4>>, <<"u1", 1, "week", 4>>,
     <<"u1", 1, "day", 5>>, <<"u1", 2, "day", 4>>}

SnapDeltas ==
    {[xp |-> 5, points |-> 10], [xp |-> 0, points |-> 0],
     [xp |-> 7, points |-> 3], [xp |-> -2, points |-> -1]}

\* get_or_create_level followed by update_level, as create_task_log does
CallUpdateLevel(d, at) ==
    /\ Len(hist) < MaxCalls
    /\ LET S1 == get_or_create_level(sess, UnitUser, at)
       IN sess' = [S1 EXCEPT !.mem.levels[UnitUser] = update_level(@, d, at)]
    /\ hist' = Append(hist, [op |-> "update_level", xp |-> d, at |-> at])

CallUpdateStreak(dom, d) ==
    /\ Len(hist) < MaxCalls
    /\ sess' = update_streak(sess, UnitUser, dom, d)
    /\ hist' = Append(hist, [op |-> "update_streak", domain |-> dom, date |-> d])

CallUpdateSnapshot(key, delta, at) ==
    /\ Len(hist) < MaxCalls
    /\ sess' = update_snapshot(sess, key[1], key[2], key[3], key[4],
                               delta.xp, delta.points, at, at)
    /\ hist' = Append(hist, [op |-> "update_snapshot", key |-> key,
                             xp |-> delta.xp, points |-> delta.points,
                             at |-> at])

----------------------------------------------------------------------------
(* Awarded amounts: resolve_rewards *)

\* a base amount: the override, else the template default, else 0
BaseAmount(custom, template, field) ==
    IF ~IsNone(custom) THEN Get(custom)
    ELSE IF ~IsNone(template) THEN Get(template)[field]
    ELSE 0

\* an award that truncates the quantity before multiplying
AwardTruncFirst(base, quantity) ==
    LET multiplier == IF IsNone(quantity) THEN Scale ELSE Get(quantity)
    IN IF base # 0 THEN Trunc(multiplier, Scale) * base ELSE 0

\* int(multiplier * Decimal(base)) if base else 0
Award(base, quantity) ==
    LET multiplier == IF IsNone(quantity) THEN Scale ELSE Get(quantity)
    IN IF base # 0 THEN Trunc(multiplier * base, Scale) ELSE 0

\* resolve_rewards that prefers the template default to the override
resolve_rewards_template_first(user_task, quantity) ==
    LET template == IF IsNone(user_task) THEN None ELSE Get(user_task).template
        base_xp == IF IsNone(user_task) THEN 0
                   ELSE IF ~IsNone(template) THEN Get(template).default_xp
                   ELSE BaseAmount(Get(user_task).custom_xp, None, "default_xp")
        base_points == IF IsNone(user_task) THEN 0
                       ELSE BaseAmount(Get(user_task).custom_points, template,
                                       "default_points")
    IN [xp_awarded |-> Award(base_xp, quantity),
        points_awarded |-> Award(base_points, quantity),
        unit |-> IF IsNone(template) THEN None ELSE Get(template).unit]

resolve_rewards(user_task, quantity) ==
    LET template == IF IsNone(user_task) THEN None ELSE Get(user_task).template
        base_xp == IF IsNone(user_task) THEN 0
                   ELSE BaseAmount(Get(user_task).custom_xp, template,
                                   "default_xp")
        base_points == IF IsNone(user_task) THEN 0
                       ELSE BaseAmount(Get(user_task).custom_points, template,
                                       "default_points")
    IN [xp_awarded |-> Award(base_xp, quantity),
        points_awarded |-> Award(base_points, quantity),
        unit |-> IF IsNone(template) THEN None ELSE Get(template).unit]

\* inputs of the stand-alone resolve_rewards calls
ResolveTemplates ==
    {None,
     Some([default_xp |-> 10, default_points |-> 5, unit |-> Some("min")]),
     Some([default_xp |-> 0, default_points |-> 3, unit |-> None])}

ResolveTasks ==
    {None} \cup
    {Some([custom_xp |-> cx, custom_points |-> cp, template |-> tp]) :
        cx \in {None, Some(0), Some(3), Some(40)},
        cp \in {None, Some(0), Some(7)},
        tp \in ResolveTemplates}

ResolveQuantities ==
    {None, Some(0), Some(50), Some(100), Some(150), Some(200), Some(233),
     Some(-150)}

NoArgs == [user_task |-> None, quantity |-> None]

InitResolve ==
    /\ args \in [user_task : ResolveTasks, quantity : ResolveQuantities]
    /\ ret = None

CallResolveRewards ==
    /\ ret = None
    /\ ret' = Some(resolve_rewards(args.user_task, args.quantity))
    /\ UNCHANGED args

----------------------------------------------------------------------------
(* Catalogs read by the pipeline (users, domains, templates, tasks,        *)
(* domain settings, rewards); the pipeline never writes them.              *)

UsersTable == {"u1", "u2", "u3", "u4"}

\* Domain.id -> Domain.key, a key being a sequence of tokens
DomainsTable == (1 :> <<"sport">>) @@ (2 :> <<"study">>)

TaskTemplatesTable ==
    ("tplA" :> [default_xp |-> 10, default_points |-> 5, unit |-> Some("min")])

UserTasksTable ==
    ("t1" :> [user_id |-> "u1", domain_id |-> 1, is_active |-> TRUE,
              custom_xp |-> Some(40), custom_points |-> None,
              template_id |-> Some("tplA")]) @@
    ("t2" :> [user_id |-> "u1", domain_id |-> 2, is_active |-> TRUE,
              custom_xp |-> None, custom_points |-> None,
              template_id |-> None]) @@
    ("t3" :> [user_id |-> "u2", domain_id |-> 1, is_active |-> FALSE,
              custom_xp |-> Some(5), custom_points |-> Some(5),
              template_id |-> None]) @@
    ("t4" :> [user_id |-> "u2", domain_id |-> 1, is_active |-> TRUE,
              custom_xp |-> None, custom_points |-> Some(3),
              template_id |-> Some("tplA")]) @@
    ("t5" :> [user_id |-> "u1", domain_id |-> 2, is_active |-> FALSE,
              custom_xp |-> Some(5), custom_points |-> None,
              template_id |-> None]) @@
    ("t6" :> [user_id |-> "u2", domain_id |-> 2, is_active |-> TRUE,
              custom_xp |-> None, custom_points |-> Some(3),
              template_id |-> None])

UserDomainSettingsTable ==
    {[user_id |-> "u1", domain_id |-> 1, weekly_target_points |-> 10,
      is_enabled |-> TRUE],
     [user_id |-> "u1", domain_id |-> 2, weekly_target_points |-> 100,
      is_enabled |-> FALSE],
     [user_id |-> "u2", domain_id |-> 1, weekly_target_points |-> 3,
      is_enabled |-> TRUE],
     [user_id |-> "u2", domain_id |-> 2, weekly_target_points |-> 3,
      is_enabled |-> TRUE],
     [user_id |-> "u3", domain_id |-> 1, weekly_target_points |-> 3,
      is_enabled |-> TRUE],
     [user_id |-> "u3", domain_id |-> 2, weekly_target_points |-> 0,
      is_enabled |-> TRUE],
     [user_id |-> "u4", domain_id |-> 1, weekly_target_points |-> 10,
      is_enabled |-> FALSE]}

\* UserSettings.first_day_of_week of each user, 1 being the default and 0
\* a value the settings endpoint accepts; the pipeline never reads it
UserSettingsTable == ("u1" :> 1) @@ ("u2" :> 0)

\* the rows of select(Reward), in the order the query returns them
RewardsTable ==
    <<[id |-> 4, condition_type |-> <<"login_days">>,
       condition_value |-> Some(<<"1">>), type |-> "badge",
       reward_data |-> None, is_active |-> TRUE],
      [id |-> 5, condition_type |-> <<"tasks_completed">>,
       condition_value |-> Some(<<"x">>), type |-> "badge",
       reward_data |-> None, is_active |-> TRUE],
      [id |-> 1, condition_type |-> <<"tasks_completed">>,
       condition_value |-> Some(<<"2">>), type |-> "badge",
       reward_data |-> None, is_active |-> TRUE],
      [id |-> 2, condition_type |-> <<"streak_days", ":", "sport">>,
       condition_value |-> Some(<<"2">>), type |-> "cosmetic",
       reward_data |-> Some([item |-> "hat"]), is_active |-> TRUE],
      [id |-> 3, condition_type |-> <<"tasks_completed">>,
       condition_value |-> Some(<<"1">>), type |-> "badge",
       reward_data |-> None, is_active |-> FALSE]>>

\* the UserTask object with its template relationship loaded
LoadUserTask(task_id) ==
    LET row == UserTasksTable[task_id]
    IN [custom_xp |-> row.custom_xp, custom_points |-> row.custom_points,
        template |-> IF IsNone(row.template_id) THEN None
                     ELSE Some(TaskTemplatesTable[Get(row.template_id)])]

----------------------------------------------------------------------------
(* Reward engine: rewards.py *)

Digits ==
    ("0" :> 0) @@ ("1" :> 1) @@ ("2" :> 2) @@ ("3" :> 3) @@ ("4" :> 4) @@
    ("5" :> 5) @@ ("6" :> 6) @@ ("7" :> 7) @@ ("8" :> 8) @@ ("9" :> 9)

RECURSIVE DigitsValue(_)
DigitsValue(chars) ==
    IF chars = <<>> THEN 0
    ELSE 10 * DigitsValue(SubSeq(chars, 1, Len(chars) - 1))
         + Digits[chars[Len(chars)]]

\* a conversion that takes a string that is not a number for 0
to_int_or_zero(value) ==
    IF IsNone(value) THEN None
    ELSE LET chars == Get(value)
             signed == Len(chars) > 0 /\ chars[1] \in {"-", "+"}
             body == IF signed THEN Tail(chars) ELSE chars
         IN IF Len(body) > 0 /\ \A i \in DOMAIN body : body[i] \in DOMAIN Digits
            THEN Some(IF signed /\ chars[1] = "-"
                      THEN -DigitsValue(body) ELSE DigitsValue(body))
            ELSE Some(0)

\* _to_int: int(value), None when value is None or is not an integer
\* literal (a string being the sequence of its characters)
to_int(value) ==
    IF IsNone(value) THEN None
    ELSE LET chars == Get(value)
             signed == Len(chars) > 0 /\ chars[1] \in {"-", "+"}
             body == IF signed THEN Tail(chars) ELSE chars
         IN IF Len(body) > 0 /\ \A i \in DOMAIN body : body[i] \in DOMAIN Digits
            THEN Some(IF signed /\ chars[1] = "-"
                      THEN -DigitsValue(body) ELSE DigitsValue(body))
            ELSE None

\* _parse_condition: split on the first ":" token
parse_condition(condition_type) ==
    IF \E i \in DOMAIN condition_type : condition_type[i] = ":"
    THEN LET i == CHOOSE j \in DOMAIN condition_type :
                    /\ condition_type[j] = ":"
                    /\ \A k \in 1..(j - 1) : condition_type[k] # ":"
         IN [base |-> SubSeq(condition_type, 1, i - 1),
             qualifier |-> Some(SubSeq(condition_type, i + 1,
                                       Len(condition_type)))]
    ELSE [base |-> condition_type, qualifier |-> None]

\* a membership check that never finds the grant
has_reward_never(S, user_id, reward_id) == FALSE

\* _has_reward, on the rows the query sees
has_reward(S, user_id, reward_id) ==
    \E ur \in S.flushed.user_rewards :
        ur.user_id = user_id /\ ur.reward_id = reward_id

\* a count check that needs one event more than the threshold
check_tasks_completed_strict(S, reward, user_id) ==
    LET threshold == to_int(reward.condition_value)
        completed == Cardinality({i \in DOMAIN S.flushed.logs :
                                     S.flushed.logs[i].user_id = user_id})
    IN IF IsNone(threshold) THEN FALSE ELSE completed > Get(threshold)

check_tasks_completed(S, reward, user_id) ==
    LET threshold == to_int(reward.condition_value)
        completed == Cardinality({i \in DOMAIN S.flushed.logs :
                                     S.flushed.logs[i].user_id = user_id})
    IN IF IsNone(threshold) THEN FALSE ELSE completed >= Get(threshold)

\* the category of a reward with no qualifier: reward_data.get("domain")
\* or reward_data.get("domain_key"), an empty string counting as absent
PayloadDomainKey(data) ==
    IF IsNone(data) THEN None
    ELSE IF "domain" \in DOMAIN Get(data) /\ Get(data).domain # <<>>
    THEN Some(Get(data).domain)
    ELSE IF "domain_key" \in DOMAIN Get(data) /\ Get(data).domain_key # <<>>
    THEN Some(Get(data).domain_key)
    ELSE None

\* a category check that counts the events of every category
check_tasks_completed_category_all(S, reward, user_id) ==
    LET threshold == to_int(reward.condition_value)
        qualifier == parse_condition(reward.condition_type).qualifier
        domain_key ==
            IF ~IsNone(qualifier) /\ Get(qualifier) # <<>> THEN qualifier
            ELSE PayloadDomainKey(reward.reward_data)
        completed ==
            Cardinality({i \in DOMAIN S.flushed.logs :
                S.flushed.logs[i].user_id = user_id})
    IN IF IsNone(threshold) \/ IsNone(domain_key) THEN FALSE
       ELSE completed >= Get(threshold)

check_tasks_completed_category(S, reward, user_id) ==
    LET threshold == to_int(reward.condition_value)
        qualifier == parse_condition(reward.condition_type).qualifier
        domain_key ==
            IF ~IsNone(qualifier) /\ Get(qualifier) # <<>> THEN qualifier
            ELSE PayloadDomainKey(reward.reward_data)
        completed ==
            Cardinality({i \in DOMAIN S.flushed.logs :
                /\ S.flushed.logs[i].user_id = user_id
                /\ S.flushed.logs[i].domain_id \in DOMAIN DomainsTable
                /\ DomainsTable[S.flushed.logs[i].domain_id] = Get(domain_key)})
    IN IF IsNone(threshold) \/ IsNone(domain_key) THEN FALSE
       ELSE completed >= Get(threshold)

RECURSIVE MaxOf(_)
MaxOf(set) ==
    IF set = {} THEN 0
    ELSE LET x == CHOOSE y \in set : TRUE
         IN Max2(x, MaxOf(set \ {x}))

\* a streak check that reads the best streak
check_streak_days_best(S, reward, user_id) ==
    LET threshold == to_int(reward.condition_value)
        qualifier == parse_condition(reward.condition_type).qualifier
        filtered == ~IsNone(qualifier) /\ Get(qualifier) # <<>>
        rows == {k \in DOMAIN S.flushed.streaks :
                    /\ k[1] = user_id
                    /\ filtered =>
                          /\ k[2] \in DOMAIN DomainsTable
                          /\ DomainsTable[k[2]] = Get(qualifier)}
        current_streak ==
            MaxOf({S.flushed.streaks[k].best_streak_days : k \in rows})
    IN IF IsNone(threshold) THEN FALSE ELSE current_streak >= Get(threshold)

check_streak_days(S, reward, user_id) ==
    LET threshold == to_int(reward.condition_value)
        qualifier == parse_condition(reward.condition_type).qualifier
        filtered == ~IsNone(qualifier) /\ Get(qualifier) # <<>>
        rows == {k \in DOMAIN S.flushed.streaks :
                    /\ k[1] = user_id
                    /\ filtered =>
                          /\ k[2] \in DOMAIN DomainsTable
                          /\ DomainsTable[k[2]] = Get(qualifier)}
        current_streak ==
            MaxOf({S.flushed.streaks[k].current_streak_days : k \in rows})
    IN IF IsNone(threshold) THEN FALSE ELSE current_streak >= Get(threshold)

\* a balance check that is content with one category on target
check_stats_balance_any(S, reward, user_id, today) ==
    LET threshold == to_int(reward.condition_value)
        week_start == monday_start(today)
        rows == {st \in UserDomainSettingsTable :
                    /\ st.user_id = user_id
                    /\ st.is_enabled
                    /\ st.domain_id \in DOMAIN DomainsTable}
        progress(st) ==
            LET key == <<user_id, st.domain_id, "week", week_start>>
            IN IF key \in DOMAIN S.flushed.snaps
               THEN S.flushed.snaps[key].points_total ELSE 0
    IN IF IsNone(threshold) \/ rows = {} THEN FALSE
       ELSE \E st \in rows :
               /\ st.weekly_target_points > 0
               /\ progress(st) * 100 >= Get(threshold) * st.weekly_target_points

\* a check that holds when the query returns no row
check_stats_balance_vacuous(S, reward, user_id, today) ==
    LET threshold == to_int(reward.condition_value)
        week_start == monday_start(today)
        rows == {st \in UserDomainSettingsTable :
                    /\ st.user_id = user_id
                    /\ st.is_enabled
                    /\ st.domain_id \in DOMAIN DomainsTable}
        progress(st) ==
            LET key == <<user_id, st.domain_id, "week", week_start>>
            IN IF key \in DOMAIN S.flushed.snaps
               THEN S.flushed.snaps[key].points_total ELSE 0
    IN IF IsNone(threshold) THEN FALSE
       ELSE \A st \in rows :
               /\ st.weekly_target_points > 0
               /\ progress(st) * 100 >= Get(threshold) * st.weekly_target_points

check_stats_balance(S, reward, user_id, today) ==
    LET threshold == to_int(reward.condition_value)
        week_start == monday_start(today)
        rows == {st \in UserDomainSettingsTable :
                    /\ st.user_id = user_id
                    /\ st.is_enabled
                    /\ st.domain_id \in DOMAIN DomainsTable}
        progress(st) ==
            LET key == <<user_id, st.domain_id, "week", week_start>>
            IN IF key \in DOMAIN S.flushed.snaps
               THEN S.flushed.snaps[key].points_total ELSE 0
    IN IF IsNone(threshold) \/ rows = {} THEN FALSE
       ELSE \A st \in rows :
               /\ st.weekly_target_points > 0
               /\ progress(st) * 100 >= Get(threshold) * st.weekly_target_points

\* _evaluate_reward: dispatch on the base of the condition type
evaluate_reward(S, reward, user_id, today) ==
    LET base == parse_condition(reward.condition_type).base
        Q == BeforeQuery(S)
    IN IF base = <<"tasks_completed">>
       THEN check_tasks_completed(Q, reward, user_id)
       ELSE IF base = <<"tasks_completed_category">>
       THEN check_tasks_completed_category(Q, reward, user_id)
       ELSE IF base = <<"streak_days">>
       THEN check_streak_days(Q, reward, user_id)
       ELSE IF base = <<"stats_balance">>
       THEN check_stats_balance(Q, reward, user_id, today)
       ELSE FALSE

\* _resolve_cosmetic_key: payload.get("item") or payload.get("item_key")
\* of a dict, or the payload itself when it is a string, written [str |-> s]
resolve_cosmetic_key(payload) ==
    IF IsNone(payload) THEN None
    ELSE IF "str" \in DOMAIN Get(payload) THEN Some(Get(payload).str)
    ELSE IF "item" \in DOMAIN Get(payload) THEN Some(Get(payload).item)
    ELSE IF "item_key" \in DOMAIN Get(payload) THEN Some(Get(payload).item_key)
    ELSE None

\* a grant that adds the cosmetic without looking for it
grant_reward_adds_always(S, reward, user_id, uid) ==
    LET S1 == [S EXCEPT !.mem.user_rewards = @ \cup
                  {[id |-> <<uid, reward.id>>, user_id |-> user_id,
                    reward_id |-> reward.id]}]
        item_key == resolve_cosmetic_key(reward.reward_data)
    IN IF reward.type = "cosmetic" /\ ~IsNone(item_key)
       THEN [S1 EXCEPT !.mem.user_cosmetics = @ \cup
                {[id |-> <<uid, reward.id>>, user_id |-> user_id,
                  item_key |-> Get(item_key)]}]
       ELSE S1

\* _grant_reward; uid seeds the generated row ids
grant_reward(S, reward, user_id, uid) ==
    LET S1 == [S EXCEPT !.mem.user_rewards = @ \cup
                  {[id |-> <<uid, reward.id>>, user_id |-> user_id,
                    reward_id |-> reward.id]}]
        item_key == resolve_cosmetic_key(reward.reward_data)
    IN IF reward.type = "cosmetic" /\ ~IsNone(item_key)
       THEN LET Q == BeforeQuery(S1)
                owned == \E c \in Q.flushed.user_cosmetics :
                            c.user_id = user_id /\ c.item_key = Get(item_key)
            IN IF owned THEN Q
               ELSE [Q EXCEPT !.mem.user_cosmetics = @ \cup
                        {[id |-> <<uid, reward.id>>, user_id |-> user_id,
                          item_key |-> Get(item_key)]}]
       ELSE S1

\* the loop of check_rewards from reward number i on
RECURSIVE CheckFrom(_, _, _, _, _, _)
CheckFrom(S, unlocked, i, user_id, uid, today) ==
    IF i > Len(RewardsTable) THEN [S |-> S, unlocked |-> unlocked]
    ELSE LET reward == RewardsTable[i]
             Q == BeforeQuery(S)
         IN IF has_reward(Q, user_id, reward.id)
            THEN CheckFrom(Q, unlocked, i + 1, user_id, uid, today)
            ELSE IF evaluate_reward(Q, reward, user_id, today)
                 THEN CheckFrom(grant_reward(Q, reward, user_id, uid),
                                Append(unlocked, reward.id), i + 1,
                                user_id, uid, today)
                 ELSE CheckFrom(Q, unlocked, i + 1, user_id, uid, today)

\* a check_rewards that takes back the grants whose condition no longer
\* holds
check_rewards_revoking(S, user_id, uid, today) ==
    LET res == CheckFrom(BeforeQuery(S), <<>>, 1, user_id, uid, today)
        Q == BeforeQuery(res.S)
        lapsed == {ur \in Q.mem.user_rewards :
                      /\ ur.user_id = user_id
                      /\ \E i \in DOMAIN RewardsTable :
                             /\ RewardsTable[i].id = ur.reward_id
                             /\ ~evaluate_reward(Q, RewardsTable[i],
                                                 user_id, today)}
    IN [res EXCEPT !.S = flush([Q EXCEPT !.mem.user_rewards = @ \ lapsed])]

check_rewards(S, user_id, uid, today) ==
    CheckFrom(BeforeQuery(S), <<>>, 1, user_id, uid, today)

----------------------------------------------------------------------------
(* Requests.  A request is one call of the POST /task-logs handler, or one *)
(* stand-alone reward evaluation, in a session of its own.                 *)

Txns == 1..MaxTxn

\* the clock readings of datetime.now and of the server defaults
NowInstants == {121}

Wall(day, hour) == day * 24 + hour

Submit(user, task, domain, at, quantity) ==
    [kind |-> "submit", user_id |-> user, user_task_id |-> task,
     domain_id |-> domain, occurred_at |-> at, quantity |-> quantity,
     unit |-> None]

Payloads ==
    {Submit("u1", Some("t1"), None,
            Some([wall |-> Wall(4, 10), tz |-> None]), Some(200)),
     Submit("u1", Some("t1"), Some(2),
            Some([wall |-> Wall(6, 1), tz |-> Some(2)]), None),
     Submit("u2", Some("t4"), None,
            Some([wall |-> Wall(4, 10), tz |-> None]), Some(150)),
     Submit("u1", None, None, None, None),
     [kind |-> "evaluate", user_id |-> "u1"]}

\* submits for the validation: users known and unknown; tasks absent,
\* found, of another user, inactive, unknown; domains absent, known, unknown
ValidatedPayloads ==
    {Submit(u, task, dom, Some([wall |-> Wall(4, 10), tz |-> None]), None) :
        u \in {"u1", "ghost"},
        task \in {None, Some("t1"), Some("t4"), Some("t5"), Some("tX")},
        dom \in {None, Some(2), Some(9)}}

\* submits with occurred_at absent, or with a UTC offset in hours that
\* puts the instant on another UTC date than the wall clock
ZonedPayloads ==
    {Submit("u1", Some("t1"), None, at, None) :
        at \in {None,
                Some([wall |-> Wall(5, 1), tz |-> Some(2)]),
                Some([wall |-> Wall(4, 22), tz |-> Some(-5)])}}

\* submits the schema accepts: TaskLogCreate.quantity is any Decimal,
\* TaskLogCreate.occurred_at any datetime or absent
AcceptedPayloads ==
    {Submit("u1", Some("t1"), None,
            Some([wall |-> Wall(day, 10), tz |-> None]), quantity) :
        day \in {4, 5},
        quantity \in {None, Some(0), Some(200), Some(-150)}}
    \cup ZonedPayloads

NoPayload == [kind |-> "none"]

IdleTx ==
    [pc |-> "idle", payload |-> NoPayload, now |-> 0,
     S |-> NewSession(EmptyTables), snap |-> EmptyTables,
     unlocked |-> <<>>, status |-> 0, error |-> None, concurrent |-> {}]

InFlight(t) == tx[t].pc \notin {"idle", "done", "failed"}

\* get_user_task finds the task: it exists, belongs to the user, is active
TaskFound(task_id, user_id) ==
    /\ task_id \in DOMAIN UserTasksTable
    /\ UserTasksTable[task_id].user_id = user_id
    /\ UserTasksTable[task_id].is_active

\* a validation that wants a domain id before it looks the task up
RaisedDomainFirst(p) ==
    IF p.user_id \notin UsersTable THEN Some("TaskLogNotFound")
    ELSE IF IsNone(p.domain_id) THEN Some("TaskLogError")
    ELSE IF /\ ~IsNone(p.user_task_id)
            /\ ~TaskFound(Get(p.user_task_id), p.user_id)
         THEN Some("TaskLogNotFound")
    ELSE LET domain_id == IF ~IsNone(p.user_task_id)
                          THEN UserTasksTable[Get(p.user_task_id)].domain_id
                          ELSE Get(p.domain_id)
         IN IF domain_id \notin DOMAIN DomainsTable
            THEN Some("TaskLogNotFound")
            ELSE None

\* the validation of create_task_log: the class of the exception its
\* first failing check raises, None when every check passes
Raised(p) ==
    IF p.user_id \notin UsersTable THEN Some("TaskLogNotFound")
    ELSE IF /\ ~IsNone(p.user_task_id)
            /\ ~TaskFound(Get(p.user_task_id), p.user_id)
         THEN Some("TaskLogNotFound")
    ELSE LET domain_id == IF ~IsNone(p.user_task_id)
                          THEN Some(UserTasksTable[Get(p.user_task_id)].domain_id)
                          ELSE p.domain_id
         IN IF IsNone(domain_id) THEN Some("TaskLogError")
            ELSE IF Get(domain_id) \notin DOMAIN DomainsTable
                 THEN Some("TaskLogNotFound")
            ELSE None

\* the except clauses of the endpoint, in their order; TaskLogNotFound is
\* a subclass of TaskLogError
HttpStatus(exc) ==
    IF exc = "TaskLogNotFound" THEN 404
    ELSE IF exc \in {"TaskLogNotFound", "TaskLogError"} THEN 400
    ELSE 500

\* the HTTP status of a validation failure, 0 when there is none
ValidationStatus(p) ==
    IF IsNone(Raised(p)) THEN 0 ELSE HttpStatus(Get(Raised(p)))

ResolvedDomain(p) ==
    IF ~IsNone(p.user_task_id)
    THEN UserTasksTable[Get(p.user_task_id)].domain_id
    ELSE Get(p.domain_id)

\* a normalisation that takes every wall clock for UTC
NormalizeOccurredAtAsUtc(at, now) ==
    IF IsNone(at) THEN now ELSE Get(at).wall

\* the normalisation of occurred_at to UTC
NormalizeOccurredAt(at, now) ==
    IF IsNone(at) THEN now
    ELSE IF IsNone(Get(at).tz) THEN Get(at).wall
    ELSE Get(at).wall - Get(Get(at).tz)

DateOf(instant) == instant \div 24

\* the TaskLog and XPEvent rows of a submit, the TaskLog flushed
InsertTaskLog(S, id, p, now) ==
    LET user_task == IF IsNone(p.user_task_id) THEN None
                     ELSE Some(LoadUserTask(Get(p.user_task_id)))
        domain_id == ResolvedDomain(p)
        awarded == resolve_rewards(user_task, p.quantity)
        occurred_at == NormalizeOccurredAt(p.occurred_at, now)
        task_log == [user_id |-> p.user_id, user_task_id |-> p.user_task_id,
                     domain_id |-> domain_id, occurred_at |-> occurred_at,
                     quantity |-> p.quantity,
                     unit |-> IF ~IsNone(p.unit) THEN p.unit ELSE awarded.unit,
                     xp_awarded |-> awarded.xp_awarded,
                     points_awarded |-> awarded.points_awarded]
        S1 == flush([S EXCEPT !.mem.logs = @ @@ (id :> task_log)])
    IN [S1 EXCEPT !.mem.xp_events = @ \cup
           {[user_id |-> p.user_id, domain_id |-> domain_id,
             source_type |-> "task_log", source_id |-> id,
             delta_xp |-> awarded.xp_awarded, occurred_at |-> occurred_at]}]

----------------------------------------------------------------------------
(* Transactions: get_session and the isolation of the database.            *)
(* A transaction reads the snapshot of its first statement; it commits     *)
(* when the handler returns and rolls back when the handler raises or the  *)
(* caller goes away; a commit fails with a serialization error when rows   *)
(* of the user it works on were committed since its snapshot.              *)

Restrict(f, D) == [k \in D |-> f[k]]

\* the rows of the tables that belong to a user
UserRows(T, u) ==
    [logs |-> Restrict(T.logs, {k \in DOMAIN T.logs : T.logs[k].user_id = u}),
     xp_events |-> {e \in T.xp_events : e.user_id = u},
     levels |-> Restrict(T.levels, DOMAIN T.levels \cap {u}),
     streaks |-> Restrict(T.streaks, {k \in DOMAIN T.streaks : k[1] = u}),
     snaps |-> Restrict(T.snaps, {k \in DOMAIN T.snaps : k[1] = u}),
     user_rewards |-> {r \in T.user_rewards : r.user_id = u},
     user_cosmetics |-> {c \in T.user_cosmetics : c.user_id = u}]

\* a keyed table after the rows a session inserted, changed or deleted
\* are written
WriteFn(cf, mf, sf) ==
    LET written == {k \in DOMAIN mf : k \notin DOMAIN sf \/ mf[k] # sf[k]}
        deleted == DOMAIN sf \ DOMAIN mf
    IN [k \in (DOMAIN cf \ deleted) \cup written |->
           IF k \in written THEN mf[k] ELSE cf[k]]

\* a table of rows with generated ids after the same
WriteSet(cs, ms, ss) == (cs \ (ss \ ms)) \cup (ms \ ss)

\* a commit check that never reports a conflict
SerializationFailureNever(committed, snap, u) == FALSE

\* rows of the user were committed after the snapshot was taken, snap
\* being the rows the user had in the snapshot
SerializationFailure(committed, snap, u) ==
    UserRows(committed, u) # snap

\* the committed tables after the session is flushed and committed: the
\* rows of user u it inserted or changed since its snapshot are written
CommitRows(committed, S, snap, u) ==
    LET mine == UserRows(flush(S).flushed, u)
    IN [logs |-> WriteFn(committed.logs, mine.logs, snap.logs),
        xp_events |-> WriteSet(committed.xp_events, mine.xp_events,
                               snap.xp_events),
        levels |-> WriteFn(committed.levels, mine.levels, snap.levels),
        streaks |-> WriteFn(committed.streaks, mine.streaks, snap.streaks),
        snaps |-> WriteFn(committed.snaps, mine.snaps, snap.snaps),
        user_rewards |-> WriteSet(committed.user_rewards, mine.user_rewards,
                                  snap.user_rewards),
        user_cosmetics |-> WriteSet(committed.user_cosmetics,
                                    mine.user_cosmetics, snap.user_cosmetics)]

\* the session is closed: get_session leaves its with block
Closed(r, pc, status) ==
    [r EXCEPT !.pc = pc, !.status = status,
              !.S = NewSession(EmptyTables), !.snap = EmptyTables]

----------------------------------------------------------------------------
(* The handlers *)

Init ==
    /\ db = EmptyTables
    /\ tx = [t \in Txns |-> IdleTx]
    /\ hist = <<>>
    /\ sess = NewSession(EmptyTables)
    /\ args = NoArgs
    /\ ret = None

unitVars == <<hist, sess, args, ret>>

\* a request arrives and gets a session
Request(t, p, n) ==
    /\ tx[t].pc = "idle"
    /\ \A s \in 1..(t - 1) : tx[s].pc # "idle"
    /\ Cardinality({s \in Txns : InFlight(s)}) < MaxInFlight
    /\ tx' = [tx EXCEPT ![t] =
                [IdleTx EXCEPT !.pc = "begin", !.payload = p, !.now = n,
                               !.concurrent = {s \in Txns : InFlight(s)}]]
    /\ UNCHANGED <<db, unitVars>>

\* create_task_log up to the XPEvent, validation passed: awards, event
\* insert, in a session that begins on the committed tables
Validate(r, committed, t) ==
    [r EXCEPT !.snap = UserRows(committed, r.payload.user_id),
              !.S = InsertTaskLog(NewSession(committed), t, r.payload, r.now)]

Level(r, t) ==
    LET u == r.payload.user_id
        log == r.S.mem.logs[t]
        S1 == get_or_create_level(r.S, u, r.now)
    IN [r EXCEPT !.S = [S1 EXCEPT !.mem.levels[u] =
                           update_level(@, log.xp_awarded, log.occurred_at)]]

Streak(r, t) ==
    LET log == r.S.mem.logs[t]
    IN [r EXCEPT !.S = update_streak(@, log.user_id, log.domain_id,
                                     DateOf(log.occurred_at))]

SnapDay(r, t) ==
    LET log == r.S.mem.logs[t]
    IN [r EXCEPT !.S = update_snapshot(@, log.user_id, log.domain_id, "day",
                                       DateOf(log.occurred_at),
                                       log.xp_awarded, log.points_awarded,
                                       log.occurred_at, r.now)]

SnapWeek(r, t) ==
    LET log == r.S.mem.logs[t]
    IN [r EXCEPT !.S = update_snapshot(@, log.user_id, log.domain_id, "week",
                                       monday_start(DateOf(log.occurred_at)),
                                       log.xp_awarded, log.points_awarded,
                                       log.occurred_at, r.now)]

\* check_rewards at the end of create_task_log
Rewards(r, t) ==
    LET res == check_rewards(r.S, r.payload.user_id, t, DateOf(r.now))
    IN [r EXCEPT !.S = res.S, !.unlocked = res.unlocked]

\* the statements of create_task_log after the event insert
AfterEvent(r, t) ==
    Rewards(SnapWeek(SnapDay(Streak(Level(r, t), t), t), t), t)

\* a handler that inserts and commits the event before it checks that the
\* domain exists
create_task_log_checks_domain_late(t) ==
    /\ tx[t].pc = "begin"
    /\ tx[t].payload.kind = "submit"
    /\ LET p == tx[t].payload
           st == ValidationStatus(p)
           failed == [Closed(tx[t], "failed", st) EXCEPT !.error = Raised(p)]
       IN IF st # 0
          THEN /\ tx' = [tx EXCEPT ![t] = failed]
               /\ IF /\ p.user_id \in UsersTable
                     /\ IsNone(p.user_task_id)
                     /\ ~IsNone(p.domain_id)
                  THEN db' = CommitRows(db, Validate(tx[t], db, t).S,
                                        UserRows(db, p.user_id), p.user_id)
                  ELSE UNCHANGED db
          ELSE /\ tx' = [tx EXCEPT ![t] =
                           [AfterEvent(Validate(tx[t], db, t), t)
                              EXCEPT !.pc = "commit"]]
               /\ UNCHANGED db
    /\ UNCHANGED unitVars

\* a handler that commits the event as soon as it is inserted
create_task_log_commits_event(t) ==
    /\ tx[t].pc = "begin"
    /\ tx[t].payload.kind = "submit"
    /\ LET p == tx[t].payload
           st == ValidationStatus(p)
           r1 == Validate(tx[t], db, t)
       IN IF st # 0
          THEN /\ tx' = [tx EXCEPT ![t] =
                           [Closed(@, "failed", st) EXCEPT !.error = Raised(p)]]
               /\ UNCHANGED db
          ELSE /\ db' = CommitRows(db, r1.S, r1.snap, p.user_id)
               /\ tx' = [tx EXCEPT ![t] =
                           [AfterEvent([r1 EXCEPT !.snap =
                                           UserRows(db', p.user_id)], t)
                              EXCEPT !.pc = "commit"]]
    /\ UNCHANGED unitVars

\* the handler of POST /task-logs runs create_task_log in its session: a
\* failed validation closes the session with the status of the error,
\* otherwise every statement up to the return has run
create_task_log(t) ==
    /\ tx[t].pc = "begin"
    /\ tx[t].payload.kind = "submit"
    /\ LET st == ValidationStatus(tx[t].payload)
       IN IF st # 0
          THEN tx' = [tx EXCEPT ![t] =
                        [Closed(@, "failed", st)
                           EXCEPT !.error = Raised(tx[t].payload)]]
          ELSE tx' = [tx EXCEPT ![t] =
                        [AfterEvent(Validate(tx[t], db, t), t)
                           EXCEPT !.pc = "commit"]]
    /\ UNCHANGED <<db, unitVars>>

\* check_rewards called on its own
Evaluate(t) ==
    /\ tx[t].pc = "begin"
    /\ tx[t].payload.kind = "evaluate"
    /\ LET res == check_rewards(NewSession(db), tx[t].payload.user_id, t,
                                DateOf(tx[t].now))
       IN tx' = [tx EXCEPT ![t] =
                   [@ EXCEPT !.pc = "commit", !.S = res.S,
                             !.snap = UserRows(db, tx[t].payload.user_id),
                             !.unlocked = res.unlocked]]
    /\ UNCHANGED <<db, unitVars>>

\* the handler returned: the session commits, or fails to
Commit(t) ==
    /\ tx[t].pc = "commit"
    /\ LET u == tx[t].payload.user_id
       IN IF SerializationFailure(db, tx[t].snap, u)
          THEN /\ tx' = [tx EXCEPT ![t] =
                           Closed([@ EXCEPT !.unlocked = <<>>], "failed", 500)]
               /\ UNCHANGED db
          ELSE /\ db' = CommitRows(db, tx[t].S, tx[t].snap, u)
               /\ tx' = [tx EXCEPT ![t] = Closed(@, "done", 201)]
    /\ UNCHANGED unitVars

\* the handler raises after its statements ran, or the caller goes away
\* before the commit: the session rolls back
Abort(t) ==
    /\ tx[t].pc = "commit"
    /\ tx' = [tx EXCEPT ![t] =
                Closed([@ EXCEPT !.unlocked = <<>>], "failed", 500)]
    /\ UNCHANGED <<db, unitVars>>

\* requests served one after the other
RequestValidated(t, p, n) ==
    /\ t <= MaxValidated
    /\ \A s \in Txns : ~InFlight(s)
    /\ Request(t, p, n)

RequestAccepted(t, p, n) ==
    /\ t <= MaxAccepted
    /\ \A s \in Txns : ~InFlight(s)
    /\ Request(t, p, n)

DoRequest == \E t \in Txns, p \in Payloads, n \in NowInstants : Request(t, p, n)

DoCreateTaskLog == \E t \in Txns : create_task_log(t)

DoEvaluate == \E t \in Txns : Evaluate(t)

DoCommit == \E t \in Txns : Commit(t)

DoAbort == \E t \in Txns : Abort(t)

Next ==
    \/ DoRequest
    \/ DoCreateTaskLog
    \/ DoEvaluate
    \/ DoCommit
    \/ DoAbort

Spec == Init /\ [][Next]_vars

DoRequestValidated ==
    \E t \in Txns, p \in ValidatedPayloads, n \in NowInstants :
        RequestValidated(t, p, n)

NextValidate ==
    \/ DoRequestValidated
    \/ DoCreateTaskLog
    \/ DoCommit

SpecValidate == Init /\ [][NextValidate]_vars

DoRequestAccepted ==
    \E t \in Txns, p \in AcceptedPayloads, n \in NowInstants :
        RequestAccepted(t, p, n)

NextAccepted ==
    \/ DoRequestAccepted
    \/ DoCreateTaskLog
    \/ DoCommit

SpecAccepted == Init /\ [][NextAccepted]_vars

\* unit level specifications
NextLevel ==
    /\ \E d \in LevelDeltas, at \in UnitInstants : CallUpdateLevel(d, at)
    /\ UNCHANGED <<db, tx, args, ret>>

SpecLevel == Init /\ [][NextLevel]_vars

NextStreak ==
    /\ \E dom \in StreakDomains, d \in 0..MaxDate : CallUpdateStreak(dom, d)
    /\ UNCHANGED <<db, tx, args, ret>>

SpecStreak == Init /\ [][NextStreak]_vars

NextSnapshot ==
    /\ \E key \in SnapKeys, delta \in SnapDeltas :
          CallUpdateSnapshot(key, delta, 10 * (Len(hist) + 1))
    /\ UNCHANGED <<db, tx, args, ret>>

SpecSnapshot == Init /\ [][NextSnapshot]_vars

InitResolveAll ==
    /\ db = EmptyTables
    /\ tx = [t \in Txns |-> IdleTx]
    /\ hist = <<>>
    /\ sess = NewSession(EmptyTables)
    /\ InitResolve

NextResolve ==
    /\ CallResolveRewards
    /\ UNCHANGED <<db, tx, hist, sess>>

SpecResolve == InitResolveAll /\ [][NextResolve]_vars

InitWindowAll ==
    /\ db = EmptyTables
    /\ tx = [t \in Txns |-> IdleTx]
    /\ hist = <<>>
    /\ sess = NewSession(EmptyTables)
    /\ InitWindow

NextWindow ==
    /\ CallComputePeriodWindow
    /\ UNCHANGED <<db, tx, hist, sess>>

SpecWindow == InitWindowAll /\ [][NextWindow]_vars

----------------------------------------------------------------------------
(* Grant level: _grant_reward called for rewards whose condition holds, in *)
(* one session, as the loop of check_rewards calls it.                     *)

MaxGrants == 3

GrantReward(id, type, reward_data) ==
    [id |-> id, condition_type |-> <<"tasks_completed">>,
     condition_value |-> Some(<<"0">>), type |-> type,
     reward_data |-> reward_data, is_active |-> TRUE]

GrantRewards ==
    {GrantReward(11, "cosmetic", Some([item |-> "hat"])),
     GrantReward(12, "cosmetic", Some([item_key |-> "hat"])),
     GrantReward(13, "cosmetic", Some([str |-> "hat"])),
     GrantReward(14, "cosmetic", Some([item |-> "cape"])),
     GrantReward(15, "badge", Some([item |-> "hat"])),
     GrantReward(16, "cosmetic", None)}

\* one turn of the loop of check_rewards for a reward the user does not
\* have and whose condition holds
CallGrantReward(user_id, reward) ==
    /\ Cardinality(sess.mem.user_rewards) < MaxGrants
    /\ ~has_reward(BeforeQuery(sess), user_id, reward.id)
    /\ sess' = grant_reward(BeforeQuery(sess), reward, user_id, 0)
    /\ UNCHANGED <<db, tx, hist, args, ret>>

NextGrant ==
    \E u \in UsersTable, reward \in GrantRewards : CallGrantReward(u, reward)

SpecGrant == Init /\ [][NextGrant]_vars

----------------------------------------------------------------------------
(* Evaluator level: create_task_log called several times in one session,   *)
(* then the evaluators of the reward engine called on that session for a   *)
(* user and a list of reward definitions.                                  *)

MaxEvalCalls == 3

\* the dates of the events: a Sunday, then the Monday and the Tuesday of
\* the week of the clock reading
EvalDays == {3, 4, 5}

EvalPayloads ==
    {Submit(c[1], Some(c[2]), None,
            Some([wall |-> Wall(day, 10), tz |-> None]), None) :
        c \in {<<"u1", "t1">>, <<"u1", "t2">>, <<"u2", "t4">>, <<"u2", "t6">>},
        day \in EvalDays}

EvalReward(condition_type, condition_value, reward_data) ==
    [id |-> 0, condition_type |-> condition_type,
     condition_value |-> Some(condition_value), type |-> "badge",
     reward_data |-> reward_data, is_active |-> TRUE]

StreakRewards ==
    {EvalReward(ct, cv, None) :
        ct \in {<<"streak_days">>, <<"streak_days", ":", "sport">>,
                <<"streak_days", ":", "study">>,
                <<"streak_days", ":", "chess">>},
        cv \in {<<"1">>, <<"2">>, <<"3">>}}

CategoryRewards ==
    {EvalReward(c[1], cv, c[2]) :
        c \in {<<(<<"tasks_completed_category", ":", "sport">>), None>>,
               <<(<<"tasks_completed_category", ":", "study">>),
                 Some([domain |-> <<"sport">>])>>,
               <<(<<"tasks_completed_category">>),
                 Some([domain |-> <<"study">>])>>,
               <<(<<"tasks_completed_category">>),
                 Some([domain_key |-> <<"sport">>])>>,
               <<(<<"tasks_completed_category">>),
                 Some([item |-> "hat"])>>,
               <<(<<"tasks_completed_category">>), None>>},
        cv \in {<<"1">>, <<"2">>}}

BalanceRewards ==
    {EvalReward(<<"stats_balance">>, cv, None) :
        cv \in {<<"0">>, <<"5", "0">>, <<"1", "0", "0">>, <<"1", "5", "0">>}}

EvalRewards == StreakRewards \cup CategoryRewards \cup BalanceRewards

\* create_task_log in the session shared by the calls
CallCreateTaskLog(p, n) ==
    /\ ret = None
    /\ Cardinality(DOMAIN sess.mem.logs) < MaxEvalCalls
    /\ ValidationStatus(p) = 0
    /\ LET id == Cardinality(DOMAIN sess.mem.logs) + 1
           r == [IdleTx EXCEPT !.payload = p, !.now = n,
                               !.S = InsertTaskLog(sess, id, p, n)]
       IN sess' = AfterEvent(r, id).S
    /\ UNCHANGED <<db, tx, hist, args, ret>>

\* _evaluate_reward for a user on each definition of the list
CallEvaluateRewards(user_id, n) ==
    /\ ret = None
    /\ sess' = BeforeQuery(sess)
    /\ args' = [user_id |-> user_id, today |-> DateOf(n)]
    /\ ret' = Some([reward \in EvalRewards |->
                      evaluate_reward(sess, reward, user_id, DateOf(n))])
    /\ UNCHANGED <<db, tx, hist>>

DoCallCreateTaskLog ==
    \E p \in EvalPayloads, n \in NowInstants : CallCreateTaskLog(p, n)

DoCallEvaluateRewards ==
    \E u \in UsersTable, n \in NowInstants : CallEvaluateRewards(u, n)

NextEval ==
    \/ DoCallCreateTaskLog
    \/ DoCallEvaluateRewards

SpecEval == Init /\ [][NextEval]_vars

----------------------------------------------------------------------------
(* Properties of the level state machine (SpecLevel) *)

\* the XP deltas applied so far
DeltasApplied == [i \in DOMAIN hist |-> hist[i].xp]

UnitLevel == sess.mem.levels[UnitUser]

\* C3: after every application of a delta d >= 0 to a LevelState that
\* started fresh (level 1, XP 0, xp_to_next 100), current_xp < xp_to_next.
C3_XpBelowThreshold ==
    \A u \in DOMAIN sess.mem.levels :
        sess.mem.levels[u].current_xp < sess.mem.levels[u].xp_to_next

\* a single delta of 250 crossed two thresholds at once
C3_Witness ==
    /\ hist # <<>>
    /\ hist[Len(hist)].op = "update_level"
    /\ hist[Len(hist)].xp = 250
    /\ UnitLevel.current_level >= 3
    /\ UnitLevel.current_xp < UnitLevel.xp_to_next

\* the level and XP a fresh LevelState reaches when a total arrives as
\* one delta
LevelOfTotal(total) ==
    LET l == update_level(NewLevel(0), total, 0)
    IN <<l.current_level, l.current_xp>>

\* C4: the final (current_level, current_xp) depends only on the total of
\* the deltas applied, so every order and every split of the same total
\* gives the same result.
C4_OrderIndependent ==
    \A u \in DOMAIN sess.mem.levels :
        <<sess.mem.levels[u].current_level, sess.mem.levels[u].current_xp>>
            = LevelOfTotal(SumSeq(DeltasApplied))

\* 250 XP arrived as 25, 100, 125 and the state is level 3 with 25 XP
C4_Witness ==
    /\ DeltasApplied = <<25, 100, 125>>
    /\ UnitLevel.current_level = 3
    /\ UnitLevel.current_xp = 25

\* threshold(k) = 100 + 25 * max(k - 1, 0), written out
ReferenceThreshold(k) == 100 + 25 * (IF k - 1 > 0 THEN k - 1 ELSE 0)

\* the sum of threshold(k) for k in 1..n
RECURSIVE ThresholdsUpTo(_)
ThresholdsUpTo(n) ==
    IF n <= 0 THEN 0 ELSE ThresholdsUpTo(n - 1) + ReferenceThreshold(n)

\* the levels L >= 1 for which x = T - sum of threshold(1..L-1) satisfies
\* 0 <= x < threshold(L)
ReferenceLevels(T) ==
    {L \in 1..(T \div 100 + 1) :
        /\ 0 <= T - ThresholdsUpTo(L - 1)
        /\ T - ThresholdsUpTo(L - 1) < ReferenceThreshold(L)}

\* C21: after non-negative deltas with total T are applied to a fresh
\* LevelState, (current_level, current_xp, xp_to_next) are the reference
\* values: the unique L >= 1 and x with T = threshold(1) + ... +
\* threshold(L-1) + x and 0 <= x < threshold(L), and xp_to_next =
\* threshold(L) = 100 + 25 * max(L - 1, 0); T = 250 gives level 3, XP 25,
\* xp_to_next 150.
C21_ReferenceValues ==
    \A u \in DOMAIN sess.mem.levels :
        LET T == SumSeq(DeltasApplied)
            l == sess.mem.levels[u]
        IN /\ Cardinality(ReferenceLevels(T)) = 1
           /\ l.current_level \in ReferenceLevels(T)
           /\ l.current_xp = T - ThresholdsUpTo(l.current_level - 1)
           /\ l.xp_to_next = ReferenceThreshold(l.current_level)
           /\ T = 250 => /\ l.current_level = 3
                         /\ l.current_xp = 25
                         /\ l.xp_to_next = 150

\* a total of 250 arrived in two deltas or more and the state is level 3,
\* XP 25, xp_to_next 150
C21_Witness ==
    /\ Len(hist) >= 2
    /\ \A i \in DOMAIN hist : hist[i].op = "update_level" /\ hist[i].xp > 0
    /\ SumSeq(DeltasApplied) = 250
    /\ UnitLevel.current_level = 3
    /\ UnitLevel.current_xp = 25
    /\ UnitLevel.xp_to_next = 150

C26_Step ==
    (hist' # hist /\ UnitUser \in DOMAIN sess.mem.levels) =>
    LET old == sess.mem.levels[UnitUser]
        new == sess'.mem.levels[UnitUser]
        d == hist'[Len(hist')].xp
        at == hist'[Len(hist')].at
    IN /\ IF new.current_level # old.current_level \/ d # 0
          THEN new.last_update_at = at
          ELSE new.last_update_at = old.last_update_at
       /\ (d = 0 /\ old.current_xp < old.xp_to_next) => new = old

\* C26: update_level sets last_update_at to the occurred-at instant of the
\* event if and only if a level-up occurred or the delta is not zero; a
\* delta of 0 applied to a state with current_xp < xp_to_next leaves
\* current_level, current_xp, xp_to_next and last_update_at unchanged.
C26_LastUpdateAt == [][C26_Step]_vars

\* a delta of 250 at instant 10 made level 3, and a delta of 0 at instant
\* 20 left the state as it was, last_update_at 10 included
C26_Witness ==
    /\ Len(hist) = 2
    /\ hist[1].xp = 250 /\ hist[1].at = 10
    /\ hist[2].xp = 0 /\ hist[2].at = 20
    /\ UnitLevel = [current_level |-> 3, current_xp |-> 25,
                    xp_to_next |-> 150, last_update_at |-> 10]

----------------------------------------------------------------------------
(* Properties of the streak state machine (SpecStreak) *)

\* C5: after any sequence of update_streak calls, whatever the dates,
\* every Streak row has current_streak_days <= best_streak_days.
C5_CurrentAtMostBest ==
    \A k \in DOMAIN sess.mem.streaks :
        sess.mem.streaks[k].current_streak_days
            <= sess.mem.streaks[k].best_streak_days

\* a streak of two days was followed by an event on an earlier date
C5_Witness ==
    /\ Len(hist) >= 3
    /\ \E k \in DOMAIN sess.mem.streaks :
          /\ hist[Len(hist)].domain = k[2]
          /\ hist[Len(hist) - 1].domain = k[2]
          /\ hist[Len(hist)].date < hist[Len(hist) - 1].date
          /\ sess.mem.streaks[k].current_streak_days = 1
          /\ sess.mem.streaks[k].best_streak_days = 2

\* the call a step of the unit level specification makes
LastCall == hist'[Len(hist')]

\* the dates of the calls made so far on a domain, in their order
RECURSIVE DatesOn(_, _)
DatesOn(h, dom) ==
    IF h = <<>> THEN <<>>
    ELSE IF Head(h).domain = dom
         THEN <<Head(h).date>> \o DatesOn(Tail(h), dom)
         ELSE DatesOn(Tail(h), dom)

C13_Step ==
    hist' # hist =>
    LET key == <<UnitUser, LastCall.domain>>
        d == LastCall.date
        had == key \in DOMAIN sess.mem.streaks
        old == sess.mem.streaks[key]
        new == sess'.mem.streaks[key]
    IN /\ ~had => new = [current_streak_days |-> 1, best_streak_days |-> 1,
                         last_activity_date |-> Some(d)]
       /\ (had /\ d = Get(old.last_activity_date) + 1) =>
             /\ new.current_streak_days = old.current_streak_days + 1
             /\ new.last_activity_date = Some(d)
       /\ (had /\ d >= Get(old.last_activity_date) + 2) =>
             /\ new.current_streak_days = 1
             /\ new.last_activity_date = Some(d)
             /\ new.best_streak_days = old.best_streak_days
       /\ had =>
             new.best_streak_days
                = IF old.best_streak_days >= new.current_streak_days
                  THEN old.best_streak_days ELSE new.current_streak_days

C13_Example ==
    \A dom \in StreakDomains, d \in 0..MaxDate :
        LET row == sess.mem.streaks[<<UnitUser, dom>>]
        IN /\ DatesOn(hist, dom) = <<d, d + 1, d + 2>> =>
                 row.current_streak_days = 3 /\ row.best_streak_days = 3
           /\ DatesOn(hist, dom) = <<d, d + 1, d + 2, d + 5>> =>
                 row.current_streak_days = 1 /\ row.best_streak_days = 3

\* C13: update_streak follows the stated transitions: no prior state
\* gives current 1, best 1, last d; d one day after last adds 1 to current
\* and sets last to d; d two or more days after last gives current 1,
\* last d and leaves best; after every step best is the larger of the
\* previous best and current.  Events on d, d+1, d+2 give current 3,
\* best 3 and a later event on d+5 gives current 1, best 3.
C13_StreakTransitions == [][C13_Step]_vars /\ []C13_Example

\* events on days 0, 1, 2 and then 5 of one domain left current 1, best 3
C13_Witness ==
    \E dom \in StreakDomains :
        /\ DatesOn(hist, dom) = <<0, 1, 2, 5>>
        /\ sess.mem.streaks[<<UnitUser, dom>>] =
              [current_streak_days |-> 1, best_streak_days |-> 3,
               last_activity_date |-> Some(5)]

C14_Step ==
    hist' # hist =>
    LET key == <<UnitUser, LastCall.domain>>
    IN ( /\ key \in DOMAIN sess.mem.streaks
         /\ sess.mem.streaks[key].last_activity_date = Some(LastCall.date) )
       => sess'.mem.streaks[key] = sess.mem.streaks[key]

\* C14: an event whose date equals last_activity_date leaves
\* current_streak_days, best_streak_days and last_activity_date unchanged,
\* however many events are logged on that date.
C14_SameDateNoChange == [][C14_Step]_vars

\* after events on days 0 and 1, two more events on day 1 left the streak
\* at current 2, best 2, last day 1
C14_Witness ==
    \E dom \in StreakDomains :
        /\ DatesOn(hist, dom) = <<0, 1, 1, 1>>
        /\ sess.mem.streaks[<<UnitUser, dom>>] =
              [current_streak_days |-> 2, best_streak_days |-> 2,
               last_activity_date |-> Some(1)]

C22_Step ==
    hist' # hist =>
    LET key == <<UnitUser, LastCall.domain>>
        d == LastCall.date
        old == sess.mem.streaks[key]
        last == Get(old.last_activity_date)
    IN ( /\ key \in DOMAIN sess.mem.streaks
         /\ d < last
         /\ last - old.current_streak_days + 1 <= d )
       => sess'.mem.streaks[key] = old

\* C22: a late event whose date d is earlier than last_activity_date but
\* inside the streak range [last - current + 1, last] leaves
\* current_streak_days, best_streak_days and last_activity_date unchanged;
\* only an earlier date outside that range takes the reset branch.
C22_LateEventInsideStreak == [][C22_Step]_vars

----------------------------------------------------------------------------
(* Properties of the snapshot upsert (SpecSnapshot) *)

CallsOn(key) == {i \in DOMAIN hist : hist[i].key = key}

RECURSIVE SumCalls(_, _)
SumCalls(calls, field) ==
    IF calls = {} THEN 0
    ELSE LET i == CHOOSE j \in calls : TRUE
         IN hist[i][field] + SumCalls(calls \ {i}, field)

\* C6: update_snapshot is an additive upsert: a bucket has a row exactly
\* when it was upserted, one row per bucket, and its totals are the sums
\* of the deltas of all the calls made on it, starting from (0, 0).
C6_AdditiveUpsert ==
    /\ DOMAIN sess.mem.snaps = {hist[i].key : i \in DOMAIN hist}
    /\ \A key \in DOMAIN sess.mem.snaps :
          /\ sess.mem.snaps[key].points_total = SumCalls(CallsOn(key), "points")
          /\ sess.mem.snaps[key].xp_total = SumCalls(CallsOn(key), "xp")

\* two calls with (points 10, xp 5) on one bucket left (20, 10)
C6_Witness ==
    /\ Len(hist) = 2
    /\ hist[1].key = hist[2].key
    /\ \A i \in {1, 2} : hist[i].points = 10 /\ hist[i].xp = 5
    /\ sess.mem.snaps[hist[1].key].points_total = 20
    /\ sess.mem.snaps[hist[1].key].xp_total = 10
    /\ Cardinality(DOMAIN sess.mem.snaps) = 1

----------------------------------------------------------------------------
(* Properties of resolve_rewards (SpecResolve) *)

Abs(x) == IF x >= 0 THEN x ELSE -x

\* the integer part of n / Scale, found by search
IntegerPart(n) ==
    CHOOSE k \in -Abs(n)..Abs(n) :
        /\ Abs(k) * Scale <= Abs(n)
        /\ Abs(n) < (Abs(k) + 1) * Scale
        /\ (n >= 0 => k >= 0)
        /\ (n <= 0 => k <= 0)

\* the base amount as specified: override, else template default, else 0
ClaimedBase(task, custom, default) ==
    IF IsNone(task) THEN 0
    ELSE IF Get(task)[custom] # None THEN Get(Get(task)[custom])
    ELSE IF Get(task).template # None THEN Get(Get(task).template)[default]
    ELSE 0

ClaimedQuantity == IF args.quantity = None THEN Scale ELSE Get(args.quantity)

\* C10: xp_awarded = trunc(quantity x base_xp) and points_awarded =
\* trunc(quantity x base_points), the base being the override when not
\* null, else the template default, else 0, the quantity defaulting to 1
\* and the truncation applied to the product.
C10_AwardedAmounts ==
    ret # None =>
        /\ Get(ret).xp_awarded = IntegerPart(ClaimedQuantity *
               ClaimedBase(args.user_task, "custom_xp", "default_xp"))
        /\ Get(ret).points_awarded = IntegerPart(ClaimedQuantity *
               ClaimedBase(args.user_task, "custom_points", "default_points"))

\* XP override 40 with quantity 2 awarded 80
C10_Witness ==
    /\ ret # None
    /\ args.user_task # None
    /\ Get(args.user_task).custom_xp = Some(40)
    /\ args.quantity = Some(200)
    /\ Get(ret).xp_awarded = 80

----------------------------------------------------------------------------
(* Properties of the pipeline (Spec) *)

Done(t) == tx[t].pc = "done"

DoneSubmits == {t \in Txns : Done(t) /\ tx[t].payload.kind = "submit"}

LogsOf(T, u) == {i \in DOMAIN T.logs : T.logs[i].user_id = u}

\* the events that fall into a snapshot bucket
BucketLogs(T, key) ==
    {i \in DOMAIN T.logs :
        /\ T.logs[i].user_id = key[1]
        /\ T.logs[i].domain_id = key[2]
        /\ key[4] = IF key[3] = "day"
                    THEN T.logs[i].occurred_at \div 24
                    ELSE (T.logs[i].occurred_at \div 24)
                         - (((T.logs[i].occurred_at \div 24) + 3) % 7)}

RECURSIVE SumLogs(_, _, _)
SumLogs(T, ids, field) ==
    IF ids = {} THEN 0
    ELSE LET i == CHOOSE j \in ids : TRUE
         IN T.logs[i][field] + SumLogs(T, ids \ {i}, field)

\* the XP a LevelState stands for: the thresholds of the levels completed
\* plus the XP within the current level
RECURSIVE LevelXp(_, _)
LevelXp(level, xp) ==
    IF level <= 1 THEN xp
    ELSE LevelXp(level - 1, xp + 100 + 25 * (level - 2))

DayKey(T, i) ==
    <<T.logs[i].user_id, T.logs[i].domain_id, "day",
      T.logs[i].occurred_at \div 24>>

WeekKey(T, i) ==
    <<T.logs[i].user_id, T.logs[i].domain_id, "week",
      (T.logs[i].occurred_at \div 24)
          - (((T.logs[i].occurred_at \div 24) + 3) % 7)>>

\* every effect of the submit that wrote event i is in the tables
EffectsPresent(T, i) ==
    /\ i \in DOMAIN T.logs
    /\ \E e \in T.xp_events :
          e.source_id = i /\ e.delta_xp = T.logs[i].xp_awarded
    /\ T.logs[i].user_id \in DOMAIN T.levels
    /\ <<T.logs[i].user_id, T.logs[i].domain_id>> \in DOMAIN T.streaks
    /\ DayKey(T, i) \in DOMAIN T.snaps
    /\ WeekKey(T, i) \in DOMAIN T.snaps
    /\ \A r \in Range(tx[i].unlocked) :
          \E ur \in T.user_rewards : ur.id = <<i, r>>

\* no effect of the submit of request i is in the tables
EffectsAbsent(T, i) ==
    /\ i \notin DOMAIN T.logs
    /\ \A e \in T.xp_events : e.source_id # i
    /\ \A ur \in T.user_rewards : ur.id[1] # i
    /\ \A c \in T.user_cosmetics : c.id[1] # i

\* the aggregates are those of the events in the tables, no more, no less
AggregatesOfEvents(T) ==
    /\ \A u \in DOMAIN T.levels :
          /\ LogsOf(T, u) # {}
          /\ LevelXp(T.levels[u].current_level, T.levels[u].current_xp)
                = SumLogs(T, LogsOf(T, u), "xp_awarded")
    /\ \A k \in DOMAIN T.streaks :
          \E i \in DOMAIN T.logs :
              T.logs[i].user_id = k[1] /\ T.logs[i].domain_id = k[2]
    /\ \A k \in DOMAIN T.snaps :
          /\ BucketLogs(T, k) # {}
          /\ T.snaps[k].xp_total = SumLogs(T, BucketLogs(T, k), "xp_awarded")
          /\ T.snaps[k].points_total
                = SumLogs(T, BucketLogs(T, k), "points_awarded")

C1_Committed ==
    /\ \A t \in Txns :
          IF Done(t)
          THEN tx[t].payload.kind = "submit" => EffectsPresent(db, t)
          ELSE EffectsAbsent(db, t)
    /\ AggregatesOfEvents(db)

C1_OnlyCommitWrites ==
    db' # db => \E t \in Txns : tx[t].pc = "commit" /\ tx'[t].pc = "done"

\* C1: a submit is all-or-nothing.  In every committed state each submit
\* has either all of its effects in the tables (event, XP event, level,
\* streak, day and week snapshot, reward grants) or none, the aggregates
\* are exactly those of the committed events, and the committed tables
\* change only in the step that commits a request, so a failure or an
\* abort before the commit leaves them as they were.
C1_AllOrNothing == []C1_Committed /\ [][C1_OnlyCommitWrites]_vars

\* one submit is committed with a reward grant while another one was
\* interrupted after it had updated its aggregates
C1_Witness ==
    \E t1, t2 \in Txns :
        /\ Done(t1) /\ tx[t1].payload.kind = "submit"
        /\ tx[t1].unlocked # <<>>
        /\ tx[t2].pc = "failed" /\ tx[t2].status = 500
        /\ tx[t2].payload.user_id = tx[t1].payload.user_id
        /\ t2 \notin DOMAIN db.logs

\* C2: when two concurrent submits of one user and category have both
\* committed, no update is lost: the LevelState stands for the XP of all
\* the committed events of the user, both included, and every day and
\* week snapshot the two share holds the sums of the points and XP of
\* the events of its bucket, both included.
C2_NoLostUpdate ==
    \A t1, t2 \in DoneSubmits :
        ( /\ t1 # t2
          /\ db.logs[t1].user_id = db.logs[t2].user_id
          /\ db.logs[t1].domain_id = db.logs[t2].domain_id )
        =>
        LET u == db.logs[t1].user_id
            shared == {DayKey(db, t1), WeekKey(db, t1)}
                      \cap {DayKey(db, t2), WeekKey(db, t2)}
        IN /\ LevelXp(db.levels[u].current_level, db.levels[u].current_xp)
                >= db.logs[t1].xp_awarded + db.logs[t2].xp_awarded
           /\ LevelXp(db.levels[u].current_level, db.levels[u].current_xp)
                = SumLogs(db, LogsOf(db, u), "xp_awarded")
           /\ \A k \in shared :
                 /\ {t1, t2} \subseteq BucketLogs(db, k)
                 /\ db.snaps[k].xp_total
                       = SumLogs(db, BucketLogs(db, k), "xp_awarded")
                 /\ db.snaps[k].points_total
                       = SumLogs(db, BucketLogs(db, k), "points_awarded")

\* two submits of one user and category that were in flight together
\* have both committed into the same day and week buckets
C2_Witness ==
    \E t1, t2 \in DoneSubmits :
        /\ t1 \in tx[t2].concurrent
        /\ db.logs[t1].user_id = db.logs[t2].user_id
        /\ db.logs[t1].domain_id = db.logs[t2].domain_id
        /\ DayKey(db, t1) = DayKey(db, t2)
        /\ db.logs[t1].xp_awarded > 0
        /\ db.snaps[DayKey(db, t1)].xp_total
              = db.logs[t1].xp_awarded + db.logs[t2].xp_awarded

GrantRows(u, r) ==
    {ur \in db.user_rewards : ur.user_id = u /\ ur.reward_id = r}

\* the committed requests whose response lists reward r for user u
GrantingResponses(u, r) ==
    {t \in Txns : /\ Done(t)
                  /\ tx[t].payload.user_id = u
                  /\ r \in Range(tx[t].unlocked)}

RewardIds == {RewardsTable[i].id : i \in DOMAIN RewardsTable}

\* C7: for every user and reward there is at most one UserReward row,
\* and the reward is in the newly granted list of exactly one evaluation
\* when it is granted, of none before.
C7_GrantedOnce ==
    \A u \in UsersTable, r \in RewardIds :
        /\ Cardinality(GrantRows(u, r)) <= 1
        /\ Cardinality(GrantingResponses(u, r)) = Cardinality(GrantRows(u, r))

\* the submit that reached the threshold granted reward 1, and a later
\* evaluation with no new event granted nothing
C7_Witness ==
    \E t1, t2 \in Txns :
        /\ t1 < t2
        /\ Done(t1) /\ tx[t1].payload.kind = "submit"
        /\ 1 \in Range(tx[t1].unlocked)
        /\ Done(t2) /\ tx[t2].payload.kind = "evaluate"
        /\ tx[t2].payload.user_id = tx[t1].payload.user_id
        /\ t1 \notin tx[t2].concurrent
        /\ tx[t2].unlocked = <<>>
        /\ Cardinality(GrantRows(tx[t1].payload.user_id, 1)) = 1

\* C8: whenever two concurrent submits of one user have both committed,
\* no two UserReward rows of that user are for the same reward.
C8_NoDuplicateGrant ==
    \A t1, t2 \in DoneSubmits :
        (t1 \in tx[t2].concurrent
            /\ tx[t1].payload.user_id = tx[t2].payload.user_id)
        => \A a, b \in db.user_rewards :
              ( /\ a.user_id = tx[t1].payload.user_id
                /\ b.user_id = a.user_id
                /\ a.reward_id = b.reward_id ) => a = b

\* two submits that were in flight together have committed, each saw the
\* threshold of reward 1 reached, and the reward has one row
C8_Witness ==
    \E t1, t2 \in DoneSubmits :
        /\ t1 \in tx[t2].concurrent
        /\ tx[t1].payload.user_id = tx[t2].payload.user_id
        /\ Cardinality(LogsOf(db, tx[t1].payload.user_id)) >= 3
        /\ Cardinality(GrantRows(tx[t1].payload.user_id, 1)) = 1

\* the threshold N of reward 1 (tasks_completed)
ThresholdN == 2

\* C9: the tasks_completed reward is in the response of a committed
\* submit exactly when that submit brings the user's TaskLog count to N.
C9_GrantedAtThreshold ==
    [][\A t \in Txns :
          ( /\ tx[t].pc = "commit"
            /\ tx'[t].pc = "done"
            /\ tx[t].payload.kind = "submit" )
          => ( (1 \in Range(tx'[t].unlocked))
               <=> Cardinality(LogsOf(db', tx[t].payload.user_id))
                     = ThresholdN )]_vars

\* the second submit of a user returned the reward and the third did not
C9_Witness ==
    \E t1, t2 \in DoneSubmits :
        /\ t1 # t2
        /\ tx[t1].payload.user_id = tx[t2].payload.user_id
        /\ 1 \in Range(tx[t1].unlocked)
        /\ tx[t2].unlocked = <<>>
        /\ Cardinality(LogsOf(db, tx[t1].payload.user_id)) = 3

----------------------------------------------------------------------------
(* Properties of the validation (SpecValidate) *)

Answered(t) == tx[t].pc \in {"commit", "done", "failed"}

\* the event a request inserted, pending or committed
LogOf(t) == IF tx[t].pc = "done" THEN db.logs[t] ELSE tx[t].S.mem.logs[t]

RejectedAs(t, exc, status) ==
    /\ tx[t].pc = "failed"
    /\ tx[t].error = Some(exc)
    /\ tx[t].status = status

ActiveTaskOf(task_id, user_id) ==
    \E id \in DOMAIN UserTasksTable :
        /\ id = task_id
        /\ UserTasksTable[id].user_id = user_id
        /\ UserTasksTable[id].is_active

\* C11: the validation runs in the order user, task, domain id present,
\* domain exists and stops at the first failure: an unknown user is
\* NotFound; a task reference that is not an active task of the user is
\* NotFound; no task and no domain id is a TaskLogError that is not
\* NotFound; a resolved domain that does not exist is NotFound.  A task
\* reference supplies the domain and the domain id of the payload is
\* ignored.  NotFound is answered 404 and the validation error 400.
C11_ValidationOrder ==
    \A t \in Txns :
        Answered(t) =>
        LET p == tx[t].payload
            given == ~IsNone(p.user_task_id)
        IN IF p.user_id \notin UsersTable
           THEN RejectedAs(t, "TaskLogNotFound", 404)
           ELSE IF given /\ ~ActiveTaskOf(Get(p.user_task_id), p.user_id)
           THEN RejectedAs(t, "TaskLogNotFound", 404)
           ELSE IF ~given /\ IsNone(p.domain_id)
           THEN RejectedAs(t, "TaskLogError", 400)
           ELSE IF ~given /\ Get(p.domain_id) \notin DOMAIN DomainsTable
           THEN RejectedAs(t, "TaskLogNotFound", 404)
           ELSE /\ tx[t].pc # "failed"
                /\ tx[t].error = None
                /\ LogOf(t).domain_id =
                      IF given
                      THEN UserTasksTable[Get(p.user_task_id)].domain_id
                      ELSE Get(p.domain_id)

\* a submit of an unknown user with no task and no domain id was answered
\* 404, and one with a task and a domain id that does not exist was
\* accepted into the domain of the task
C11_Witness ==
    \E t1, t2 \in Txns :
        /\ tx[t1].payload.kind = "submit"
        /\ tx[t1].payload.user_id = "ghost"
        /\ IsNone(tx[t1].payload.user_task_id)
        /\ IsNone(tx[t1].payload.domain_id)
        /\ RejectedAs(t1, "TaskLogNotFound", 404)
        /\ Done(t2)
        /\ tx[t2].payload.user_task_id = Some("t1")
        /\ tx[t2].payload.domain_id = Some(9)
        /\ db.logs[t2].domain_id = 1

Rejected(t) == tx[t].pc = "failed" /\ tx[t].status \in {400, 404}

C12_RejectedStep ==
    \A t \in Txns :
        (tx[t].pc = "begin" /\ tx'[t].pc = "failed"
            /\ tx'[t].status \in {400, 404})
        => db' = db

\* C12: a submit that ends with NotFound or with a validation error has
\* created or changed no TaskLog, XPEvent, UserLevel, Streak,
\* ProgressSnapshot, UserReward or UserCosmetic row: the step that rejects
\* it leaves the committed tables as they were, and they hold no row of it.
C12_RejectedLeavesNoTrace ==
    /\ [][C12_RejectedStep]_vars
    /\ [](\A t \in Txns : Rejected(t) => EffectsAbsent(db, t))

\* after a committed submit of u1, a submit of u1 into a domain that does
\* not exist was answered 404 and the tables hold the first event only
C12_Witness ==
    \E t1, t2 \in Txns :
        /\ Done(t1) /\ tx[t1].payload.user_id = "u1"
        /\ tx[t2].payload.kind = "submit"
        /\ tx[t2].payload.user_id = "u1"
        /\ tx[t2].payload.domain_id = Some(9)
        /\ IsNone(tx[t2].payload.user_task_id)
        /\ RejectedAs(t2, "TaskLogNotFound", 404)
        /\ DOMAIN db.logs = {t1}
        /\ "u1" \in DOMAIN db.levels

----------------------------------------------------------------------------
(* Properties of the period windows (SpecWindow) *)

\* C15: for week periodicity with interval 1 and first day of week 1
\* (Monday), the window of an instant on a Wednesday starts on the Monday
\* of that week at 00:00 and ends one time unit before the next Monday
\* at 00:00.
C15_WednesdayInMondayWeek ==
    ( /\ ret # None
      /\ args.period = "week"
      /\ args.interval = 1
      /\ args.first_day_of_week = 1
      /\ weekday(args.now \div 24) = 2 )
    => LET monday == (args.now \div 24) - 2
       IN /\ Get(ret).start = monday * 24
          /\ Get(ret).end = (monday + 7) * 24 - Tick

\* C30: for day periodicity and interval n >= 1, the window starts at
\* epoch + floor(daysSinceEpoch / n) * n days, at 00:00, the epoch being
\* 1970-01-01, and ends one time unit before start + n days.
C30_DayWindow ==
    ( /\ ret # None
      /\ args.period = "day"
      /\ args.interval >= 1 )
    => LET n == args.interval
           daysSinceEpoch == CHOOSE d \in 0..(MaxWindowDay + 1) :
                                 d * 24 <= args.now /\ args.now < (d + 1) * 24
           index == CHOOSE k \in 0..daysSinceEpoch :
                        k * n <= daysSinceEpoch /\ daysSinceEpoch < (k + 1) * n
       IN /\ Get(ret).start = index * n * 24
          /\ Get(ret).end = (index + 1) * n * 24 - Tick

\* the window of 1970-01-08 10:00 for blocks of three days is
\* 1970-01-07 00:00 to one time unit before 1970-01-10 00:00
C30_Witness ==
    /\ ret # None
    /\ args.period = "day"
    /\ args.interval = 3
    /\ args.now = 7 * 24 + 10
    /\ Get(ret).start = 6 * 24
    /\ Get(ret).end = 9 * 24 - Tick

\* the number of days of month k, month 0 being January 1970
MonthLength(k) ==
    LET year == 1970 + (k \div 12)
        leap == (year % 4 = 0 /\ year % 100 # 0) \/ year % 400 = 0
    IN <<31, IF leap THEN 29 ELSE 28, 31, 30, 31, 30,
         31, 31, 30, 31, 30, 31>>[(k % 12) + 1]

\* the first day of month k, in days since 1970-01-01
RECURSIVE MonthStart(_)
MonthStart(k) == IF k = 0 THEN 0 ELSE MonthStart(k - 1) + MonthLength(k - 1)

\* C31: for month periodicity and interval n >= 1, the window starts on
\* the 1st at 00:00 of the month of index floor(monthsSinceJan1970 / n) * n
\* and ends one time unit before the 1st of the month n months later, the
\* year advancing when the block crosses December, for every month of the
\* year and every n in 1..12.
C31_MonthWindow ==
    ( /\ ret # None
      /\ args.period = "month"
      /\ args.interval >= 1 )
    => LET n == args.interval
           monthsSinceJan1970 ==
               CHOOSE k \in 0..(MaxMonth + 1) :
                   /\ MonthStart(k) * 24 <= args.now
                   /\ args.now < MonthStart(k + 1) * 24
           index == CHOOSE i \in 0..monthsSinceJan1970 :
                        /\ i * n <= monthsSinceJan1970
                        /\ monthsSinceJan1970 < (i + 1) * n
       IN /\ Get(ret).start = MonthStart(index * n) * 24
          /\ Get(ret).end = MonthStart((index + 1) * n) * 24 - Tick

\* the window of 1970-11-15 for blocks of five months is 1970-11-01 00:00
\* to one time unit before 1971-04-01 00:00
C31_Witness ==
    /\ ret # None
    /\ args.period = "month"
    /\ args.interval = 5
    /\ args.now = 318 * 24
    /\ Get(ret).start = 304 * 24
    /\ Get(ret).end = 455 * 24 - Tick

\* the instants a window is compared with: one in the middle of each
\* month for the month windows, those of the inputs for the others
OtherInstants(period) ==
    IF period = "month"
    THEN {(MonthStart(k) + 14) * 24 + 10 : k \in 0..MaxMonth}
    ELSE {day * 24 + h : day \in 0..MaxWindowDay, h \in WindowHours}

\* C32: for every period kind, first day of the week and interval >= 1,
\* the window of an instant contains the instant, the window of any other
\* instant is the same window or shares no instant with it, and the
\* windows before and after it end and begin on the instants next to its
\* two ends, so each instant belongs to exactly one bucket.
C32_WindowsPartitionTime ==
    (ret # None /\ args.interval >= 1)
    => LET w == Get(ret)
           WindowOf(x) == compute_period_window(args.period, x,
                                                args.first_day_of_week,
                                                args.interval)
       IN /\ w.start <= args.now /\ args.now <= w.end
          /\ \A y \in OtherInstants(args.period) \cup {w.start, w.end} :
                 IF w.start <= y /\ y <= w.end
                 THEN WindowOf(y) = w
                 ELSE WindowOf(y).end < w.start \/ w.end < WindowOf(y).start
          /\ WindowOf(w.end + Tick).start = w.end + Tick
          /\ w.start >= Tick => WindowOf(w.start - Tick).end = w.start - Tick

\* the two-week window of 1970-01-15 for weeks beginning on day 3 has
\* instants of other days both inside and outside it
C32_Witness ==
    /\ ret # None
    /\ args.period = "week"
    /\ args.interval = 2
    /\ args.first_day_of_week = 3
    /\ args.now = 14 * 24 + 10
    /\ Get(ret).start <= args.now /\ args.now <= Get(ret).end
    /\ \E y \in OtherInstants("week") :
           y < Get(ret).start /\ y + Tick = Get(ret).start
    /\ \E y \in OtherInstants("week") :
           y # args.now /\ Get(ret).start <= y /\ y <= Get(ret).end

----------------------------------------------------------------------------
(* Properties of the snapshots of a submit (Spec) *)

\* the day of the week of a date on the scale of the settings, where 1 is
\* Monday and 0 is Sunday; 1970-01-01 was a Thursday
SettingsDayOfWeek(d) == (d + 4) % 7

\* the first day of the week that contains date d, for a week that begins
\* on first_day
WeekStartFor(d, first_day) ==
    CHOOSE s \in (d - 6)..d : SettingsDayOfWeek(s) = first_day % 7

\* C16: each successful submit upserts exactly one day snapshot and one
\* week snapshot, and the period_start of the week snapshot is the first
\* day of the calendar week containing the date of the event, the week
\* beginning on the first day of week the submitting user has configured.
C16_WeekOfUserSettings ==
    \A t \in DoneSubmits :
        LET u == db.logs[t].user_id
            dom == db.logs[t].domain_id
            d == db.logs[t].occurred_at \div 24
            days == {k \in DOMAIN db.snaps :
                        /\ k[1] = u /\ k[2] = dom /\ k[3] = "day"
                        /\ k[4] = d}
            weeks == {k \in DOMAIN db.snaps :
                         /\ k[1] = u /\ k[2] = dom /\ k[3] = "week"
                         /\ k[4] <= d /\ d < k[4] + 7}
        IN /\ Cardinality(days) = 1
           /\ weeks = {<<u, dom, "week",
                         WeekStartFor(d, UserSettingsTable[u])>>}

----------------------------------------------------------------------------
(* Properties of the accepted payloads (SpecAccepted) *)

C17_Step ==
    \A k \in DOMAIN db.snaps :
        /\ k \in DOMAIN db'.snaps
        /\ db'.snaps[k].points_total >= db.snaps[k].points_total
        /\ db'.snaps[k].xp_total >= db.snaps[k].xp_total

\* C17: for every snapshot bucket, points_total and xp_total never
\* decrease from one state to the next, over any sequence of submits
\* with any accepted payload.
C17_TotalsNeverDecrease == [][C17_Step]_vars

\* C18: every persisted TaskLog has xp_awarded >= 0 and
\* points_awarded >= 0, for every payload the request schema accepts.
C18_AwardsNonNegative ==
    \A i \in DOMAIN db.logs :
        db.logs[i].xp_awarded >= 0 /\ db.logs[i].points_awarded >= 0

\* C29: after any sequence of successful submits with any accepted
\* payloads, every LevelState has current_level >= 1 and
\* 0 <= current_xp < xp_to_next.
C29_LevelStateInRange ==
    \A u \in DOMAIN db.levels :
        /\ db.levels[u].current_level >= 1
        /\ 0 <= db.levels[u].current_xp
        /\ db.levels[u].current_xp < db.levels[u].xp_to_next

----------------------------------------------------------------------------
(* Properties of the reward catalog *)

RewardOf(id) ==
    RewardsTable[CHOOSE i \in DOMAIN RewardsTable : RewardsTable[i].id = id]

\* C19: check_rewards grants only active reward definitions: a Reward
\* whose is_active flag is false is never granted to any user.
C19_OnlyActiveGranted ==
    \A ur \in db.user_rewards : RewardOf(ur.reward_id).is_active

\* the condition types that have an evaluator
RegisteredTypes ==
    {<<"tasks_completed">>, <<"tasks_completed_category">>,
     <<"streak_days">>, <<"stats_balance">>}

\* the rewards of the catalog with a colon-free condition type that is not
\* registered, or with a threshold that holds a character that is not a
\* digit
Unevaluable ==
    {RewardsTable[i].id : i \in
        {j \in DOMAIN RewardsTable :
            \/ /\ ":" \notin Range(RewardsTable[j].condition_type)
               /\ RewardsTable[j].condition_type \notin RegisteredTypes
            \/ /\ RewardsTable[j].condition_value # None
               /\ \E c \in Range(Get(RewardsTable[j].condition_value)) :
                     c \notin {"0", "1", "2", "3", "4", "5", "6", "7", "8",
                               "9"}}}

\* C20: a reward whose condition type has no registered evaluator, or
\* whose threshold is not a number, is never granted and never makes
\* check_rewards or the submit fail: no request fails, no such reward is
\* in a response or in the tables, and the rewards that follow it in the
\* catalog are still evaluated, the tasks_completed reward being granted
\* to a user with N events.
C20_UnevaluableSkipped ==
    /\ \A t \in Txns :
          /\ tx[t].pc # "failed"
          /\ Range(tx[t].unlocked) \cap Unevaluable = {}
    /\ \A ur \in db.user_rewards : ur.reward_id \notin Unevaluable
    /\ \A u \in UsersTable :
          Cardinality(LogsOf(db, u)) >= ThresholdN => GrantRows(u, 1) # {}

\* rewards 4 (unknown type) and 5 (threshold "x") come first in the
\* catalog, two submits are committed and the second one returned reward 1
C20_Witness ==
    /\ Unevaluable = {4, 5}
    /\ RewardsTable[1].id = 4 /\ RewardsTable[2].id = 5
    /\ \E t1, t2 \in DoneSubmits :
          /\ t1 < t2
          /\ tx[t1].payload.user_id = tx[t2].payload.user_id
          /\ 1 \in Range(tx[t2].unlocked)
          /\ GrantRows(tx[t1].payload.user_id, 1) # {}

----------------------------------------------------------------------------
(* Properties of the evaluators (SpecEval) *)

\* the threshold of a reward definition, as a number
ClaimedThreshold(reward) == DigitsValue(Get(reward.condition_value))

\* the part of the condition type after the colon, when there is one
ClaimedQualifier(reward) ==
    IF Len(reward.condition_type) = 3
    THEN Some(<<reward.condition_type[3]>>) ELSE None

\* the largest of a set of numbers, 0 for the empty set
Largest(numbers) ==
    IF numbers = {} THEN 0
    ELSE CHOOSE m \in numbers : \A other \in numbers : m >= other

\* the Streak rows of the evaluated user, of the category of the qualifier
\* when there is one
StreakRowsFor(reward) ==
    {k \in DOMAIN sess.mem.streaks :
        /\ k[1] = args.user_id
        /\ ClaimedQualifier(reward) # None =>
              Some(DomainsTable[k[2]]) = ClaimedQualifier(reward)}

\* C23: the streak_days evaluator returns true iff the maximum of
\* current_streak_days over the Streak rows of the user (of the category
\* whose key is the qualifier when one is given) is >= threshold, a user
\* with no matching row counting as 0; it reads the current streak, not
\* the best streak.
C23_StreakDaysEvaluator ==
    ret # None =>
        \A reward \in StreakRewards :
            Get(ret)[reward]
                <=> Largest({sess.mem.streaks[k].current_streak_days :
                                k \in StreakRowsFor(reward)})
                        >= ClaimedThreshold(reward)

\* u1 has one streak, in sport, of current 1 and best 2: streak_days with
\* threshold 2 is false, with threshold 1 true, and streak_days:chess,
\* which matches no row, is false
C23_Witness ==
    /\ ret # None
    /\ args.user_id = "u1"
    /\ DOMAIN sess.mem.streaks = {<<"u1", 1>>}
    /\ sess.mem.streaks[<<"u1", 1>>].current_streak_days = 1
    /\ sess.mem.streaks[<<"u1", 1>>].best_streak_days = 2
    /\ ~Get(ret)[EvalReward(<<"streak_days">>, <<"2">>, None)]
    /\ Get(ret)[EvalReward(<<"streak_days">>, <<"1">>, None)]
    /\ Get(ret)[EvalReward(<<"streak_days", ":", "sport">>, <<"1">>, None)]
    /\ ~Get(ret)[EvalReward(<<"streak_days", ":", "chess">>, <<"1">>, None)]

\* the points of the snapshot of the current week of a category setting,
\* the week beginning on the Monday on or before the day of the
\* evaluation, 0 when there is no snapshot
WeekPoints(st) ==
    LET monday == args.today - ((args.today + 3) % 7)
        key == <<st.user_id, st.domain_id, "week", monday>>
    IN IF key \in DOMAIN sess.mem.snaps
       THEN sess.mem.snaps[key].points_total ELSE 0

EnabledSettings(user_id) ==
    {st \in UserDomainSettingsTable : st.user_id = user_id /\ st.is_enabled}

\* C24: the stats_balance evaluator returns true only if every enabled
\* category setting of the user has a weekly target > 0 and the points of
\* the snapshot of the current week (0 when there is none) x 100 / target
\* are >= threshold; one enabled category with a zero target or with a
\* percentage below the threshold makes the whole check false.
C24_StatsBalanceEvaluator ==
    ret # None =>
        \A reward \in BalanceRewards :
            Get(ret)[reward] =>
                \A st \in EnabledSettings(args.user_id) :
                    /\ st.weekly_target_points > 0
                    /\ WeekPoints(st) * 100
                          >= ClaimedThreshold(reward) * st.weekly_target_points

\* u2 has reached the target of sport this week and has no points in
\* study: the check is false for the thresholds 50 and 100 and true for 0
C24_Witness ==
    /\ ret # None
    /\ args.user_id = "u2"
    /\ Cardinality(EnabledSettings("u2")) = 2
    /\ \E st \in EnabledSettings("u2") :
          WeekPoints(st) >= st.weekly_target_points /\ WeekPoints(st) > 0
    /\ \E st \in EnabledSettings("u2") : WeekPoints(st) = 0
    /\ ~Get(ret)[EvalReward(<<"stats_balance">>, <<"5", "0">>, None)]
    /\ ~Get(ret)[EvalReward(<<"stats_balance">>, <<"1", "0", "0">>, None)]
    /\ Get(ret)[EvalReward(<<"stats_balance">>, <<"0">>, None)]

\* the category a tasks_completed_category reward names: the qualifier,
\* else the domain field of the payload of the reward (domain, or
\* domain_key), else none
ClaimedCategory(reward) ==
    IF ClaimedQualifier(reward) # None THEN ClaimedQualifier(reward)
    ELSE IF reward.reward_data = None THEN None
    ELSE IF "domain" \in DOMAIN Get(reward.reward_data)
    THEN Some(Get(reward.reward_data).domain)
    ELSE IF "domain_key" \in DOMAIN Get(reward.reward_data)
    THEN Some(Get(reward.reward_data).domain_key)
    ELSE None

\* the TaskLogs of the evaluated user in the category of a key
LogsInCategory(key) ==
    {i \in DOMAIN sess.mem.logs :
        /\ sess.mem.logs[i].user_id = args.user_id
        /\ DomainsTable[sess.mem.logs[i].domain_id] = key}

\* C25: the tasks_completed_category evaluator returns true iff the number
\* of TaskLogs of the user in the category named by the qualifier is >=
\* threshold; with no qualifier the category key is taken from the domain
\* field of the payload of the reward, and when neither names a category
\* the result is false.
C25_CategoryEvaluator ==
    ret # None =>
        \A reward \in CategoryRewards :
            Get(ret)[reward]
                <=> /\ ClaimedCategory(reward) # None
                    /\ Cardinality(LogsInCategory(Get(ClaimedCategory(reward))))
                          >= ClaimedThreshold(reward)

\* u1 has two events in sport and one in study: the reward of qualifier
\* sport and threshold 2 is true, the reward with no qualifier and payload
\* domain study is true for threshold 1 and false for 2, the reward of
\* qualifier study and payload domain sport is false for threshold 2, and
\* the rewards that name no category are false
C25_Witness ==
    /\ ret # None
    /\ args.user_id = "u1"
    /\ Cardinality(LogsInCategory(<<"sport">>)) = 2
    /\ Cardinality(LogsInCategory(<<"study">>)) = 1
    /\ Get(ret)[EvalReward(<<"tasks_completed_category", ":", "sport">>,
                           <<"2">>, None)]
    /\ Get(ret)[EvalReward(<<"tasks_completed_category">>, <<"1">>,
                           Some([domain |-> <<"study">>]))]
    /\ ~Get(ret)[EvalReward(<<"tasks_completed_category">>, <<"2">>,
                            Some([domain |-> <<"study">>]))]
    /\ ~Get(ret)[EvalReward(<<"tasks_completed_category", ":", "study">>,
                            <<"2">>, Some([domain |-> <<"sport">>]))]
    /\ ~Get(ret)[EvalReward(<<"tasks_completed_category">>, <<"1">>, None)]
    /\ ~Get(ret)[EvalReward(<<"tasks_completed_category">>, <<"1">>,
                            Some([item |-> "hat"]))]

----------------------------------------------------------------------------
(* Properties of the instant of an event (SpecAccepted) *)

\* the statements of create_task_log have run in the session of the
\* request, which is not committed yet
Ran(t) == tx[t].pc = "commit"

\* the day snapshots of the user that the request created or changed
DaySnapshotsWritten(t) ==
    {k \in DOMAIN tx[t].S.mem.snaps :
        /\ k[3] = "day"
        /\ \/ k \notin DOMAIN tx[t].snap.snaps
           \/ tx[t].S.mem.snaps[k] # tx[t].snap.snaps[k]}

\* C27: the occurred_at stored on the event is in UTC: absent, it is the
\* current UTC time; supplied without a zone, it is the same wall clock
\* taken as UTC; supplied with a zone, it is the same instant, so that
\* its wall clock at the offset of the zone is the one supplied.  The
\* streak date and the period_start of the day snapshot of the submit are
\* the UTC calendar date of this instant.
C27_OccurredAtInUtc ==
    \A t \in Txns :
        Ran(t) =>
        LET p == tx[t].payload
            log == tx[t].S.mem.logs[t]
            stored == log.occurred_at
            utc_date == CHOOSE d \in -1..400 :
                            d * 24 <= stored /\ stored < (d + 1) * 24
        IN /\ p.occurred_at = None => stored = tx[t].now
           /\ (p.occurred_at # None /\ Get(p.occurred_at).tz = None)
                 => stored = Get(p.occurred_at).wall
           /\ (p.occurred_at # None /\ Get(p.occurred_at).tz # None)
                 => stored + Get(Get(p.occurred_at).tz)
                        = Get(p.occurred_at).wall
           /\ tx[t].S.mem.streaks[<<log.user_id, log.domain_id>>]
                 .last_activity_date = Some(utc_date)
           /\ <<log.user_id, log.domain_id, "day", utc_date>>
                 \in DOMAIN tx[t].S.mem.snaps
           /\ DaySnapshotsWritten(t)
                 \subseteq {<<log.user_id, log.domain_id, "day", utc_date>>}

\* a submit dated 1970-01-06 01:00 at UTC+2 is stored as 1970-01-05 23:00
\* and its streak date and day snapshot are those of 1970-01-05
C27_Witness ==
    \E t \in Txns :
        /\ Ran(t)
        /\ tx[t].payload.occurred_at
              = Some([wall |-> Wall(5, 1), tz |-> Some(2)])
        /\ tx[t].S.mem.logs[t].occurred_at = Wall(4, 23)
        /\ tx[t].S.mem.streaks[<<"u1", 1>>].last_activity_date = Some(4)
        /\ DaySnapshotsWritten(t) = {<<"u1", 1, "day", 4>>}

----------------------------------------------------------------------------
(* Properties of the grants (SpecGrant) *)

Owned(S, user_id, item_key) ==
    \E c \in S.mem.user_cosmetics :
        c.user_id = user_id /\ c.item_key = item_key

C28_Step ==
    \A c \in sess'.mem.user_cosmetics \ sess.mem.user_cosmetics :
        ~Owned(sess, c.user_id, c.item_key)

C28_OnePerKey ==
    \A a, b \in sess.mem.user_cosmetics :
        (a.user_id = b.user_id /\ a.item_key = b.item_key) => a = b

----------------------------------------------------------------------------
(* Properties of the rows of concurrent submits (Spec) *)

\* the keys of the rows a session created: in its tables, not in its
\* snapshot
Created(r, table) ==
    DOMAIN UserRows(flush(r.S).flushed, r.payload.user_id)[table]
        \ DOMAIN r.snap[table]

\* a commit that succeeds inserts no row whose key is already committed
C33_Step ==
    \A t \in Txns :
        (tx[t].pc = "commit" /\ tx'[t].pc = "done")
        => /\ Created(tx[t], "levels") \cap DOMAIN db.levels = {}
           /\ Created(tx[t], "streaks") \cap DOMAIN db.streaks = {}
           /\ Created(tx[t], "snaps") \cap DOMAIN db.snaps = {}

----------------------------------------------------------------------------
(* Properties of the events and grants over time (Spec) *)

PairRows(T, ur) ==
    {x \in T.user_rewards :
        x.user_id = ur.user_id /\ x.reward_id = ur.reward_id}

\* every committed TaskLog and UserReward row is still there, unchanged,
\* after the step, and a new UserReward row is the only one of its user
\* and reward
C34_Step ==
    /\ \A i \in DOMAIN db.logs :
           i \in DOMAIN db'.logs /\ db'.logs[i] = db.logs[i]
    /\ db.user_rewards \subseteq db'.user_rewards
    /\ \A ur \in db'.user_rewards : PairRows(db', ur) = {ur}

\* C34: events and grants are append-only: a TaskLog row is never
\* modified or deleted by a later submit, and a UserReward, once granted,
\* is never removed nor granted again, also when the streak that earned
\* a streak_days reward is reset.
C34_AppendOnly == [][C34_Step]_vars

\* reward 2 (a sport streak of two days) is granted to u1, three events
\* of u1 are committed and the sport streak is back to one day
C34_Witness ==
    /\ GrantRows("u1", 2) # {}
    /\ Cardinality(LogsOf(db, "u1")) = 3
    /\ <<"u1", 1>> \in DOMAIN db.streaks
    /\ db.streaks[<<"u1", 1>>].current_streak_days = 1
    /\ db.streaks[<<"u1", 1>>].best_streak_days = 2

----------------------------------------------------------------------------
(* Properties that tie the aggregates together (SpecAccepted) *)

\* the sum of f over a finite set
RECURSIVE SumOver(_, _)
SumOver(set, f) ==
    IF set = {} THEN 0
    ELSE LET x == CHOOSE y \in set : TRUE
         IN f[x] + SumOver(set \ {x}, f)

XPEventsOf(u) == {e \in db.xp_events : e.user_id = u}

DaySnapshotsOf(u) == {k \in DOMAIN db.snaps : k[1] = u /\ k[3] = "day"}

\* C35: XP is conserved: for each user the XP the LevelState stands for
\* (the thresholds of the completed levels plus current_xp) equals the
\* sum of xp_awarded over the user's TaskLogs, which equals the sum of
\* delta_xp over the user's XPEvents, one per TaskLog, and the sum of
\* xp_total over the user's day snapshots.
C35_XpConserved ==
    \A u \in UsersTable :
        LET logs == LogsOf(db, u)
            total == SumLogs(db, logs, "xp_awarded")
            events == XPEventsOf(u)
            days == DaySnapshotsOf(u)
        IN /\ IF u \in DOMAIN db.levels
              THEN LevelXp(db.levels[u].current_level,
                           db.levels[u].current_xp) = total
              ELSE logs = {}
           /\ \A i \in logs :
                 Cardinality({e \in events : e.source_id = i}) = 1
           /\ \A e \in events : e.source_id \in logs
           /\ SumOver(events, [e \in events |-> e.delta_xp]) = total
           /\ SumOver(days, [k \in days |-> db.snaps[k].xp_total]) = total

\* three events of u1 on two dates are committed and their XP took the
\* user past the first level
C35_Witness ==
    /\ Cardinality(LogsOf(db, "u1")) = 3
    /\ Cardinality(DaySnapshotsOf("u1")) = 2
    /\ "u1" \in DOMAIN db.levels
    /\ db.levels["u1"].current_level >= 2
    /\ db.levels["u1"].current_xp > 0

----------------------------------------------------------------------------
(* Properties of the snapshots of one session (SpecEval) *)

\* the Monday on or before a date, 1970-01-05 (day 4) being a Monday
MondayOf(d) == CHOOSE m \in (d - 6)..d : (m - 4) % 7 = 0

\* the day snapshots of the user and category of a week snapshot whose
\* period_start lies in its seven days
DaysOfWeek(T, w) ==
    {k \in DOMAIN T.snaps :
        /\ k[1] = w[1] /\ k[2] = w[2] /\ k[3] = "day"
        /\ w[4] <= k[4] /\ k[4] <= w[4] + 6}

\* C36: for every user, category and week beginning on a Monday, the
\* week snapshot's points_total and xp_total equal the sums of
\* points_total and xp_total over the day snapshots of that user and
\* category whose period_start lies within the week.
C36_WeekIsSumOfDays ==
    LET T == sess.mem
    IN /\ \A k \in DOMAIN T.snaps :
             k[3] = "day"
             => <<k[1], k[2], "week", MondayOf(k[4])>> \in DOMAIN T.snaps
       /\ \A w \in DOMAIN T.snaps :
             w[3] = "week"
             => LET days == DaysOfWeek(T, w)
                IN /\ w[4] = MondayOf(w[4])
                   /\ days # {}
                   /\ T.snaps[w].points_total
                         = SumOver(days,
                                   [k \in days |-> T.snaps[k].points_total])
                   /\ T.snaps[w].xp_total
                         = SumOver(days, [k \in days |-> T.snaps[k].xp_total])

\* u1 has sport events on a Sunday and on the Monday and Tuesday after
\* it: one week snapshot with one day in it, the next with two
C36_Witness ==
    LET T == sess.mem
    IN /\ {<<"u1", 1, "week", -3>>, <<"u1", 1, "week", 4>>}
             \subseteq DOMAIN T.snaps
       /\ DaysOfWeek(T, <<"u1", 1, "week", -3>>) = {<<"u1", 1, "day", 3>>}
       /\ DaysOfWeek(T, <<"u1", 1, "week", 4>>)
             = {<<"u1", 1, "day", 4>>, <<"u1", 1, "day", 5>>}
       /\ T.snaps[<<"u1", 1, "week", 4>>].xp_total
             > T.snaps[<<"u1", 1, "day", 4>>].xp_total

\* the LevelState, Streak, PeriodSnapshot and UserReward rows of a user
AggregateRows(T, u) ==
    [levels |-> UserRows(T, u).levels,
     streaks |-> UserRows(T, u).streaks,
     snaps |-> UserRows(T, u).snaps,
     user_rewards |-> UserRows(T, u).user_rewards]

\* the submit that added event i wrote, of the aggregates, only rows of
\* its user, the Streak row of its category and the snapshots of the day
\* and of the week of its date in that category
C37_Frame(T, T2, i) ==
    LET u == T2.logs[i].user_id
        c == T2.logs[i].domain_id
        d == T2.logs[i].occurred_at \div 24
        buckets == {<<u, c, "day", d>>, <<u, c, "week", MondayOf(d)>>}
    IN /\ \A v \in UsersTable \ {u} :
             AggregateRows(T2, v) = AggregateRows(T, v)
       /\ \A k \in (DOMAIN T.streaks \cup DOMAIN T2.streaks) \ {<<u, c>>} :
             /\ k \in DOMAIN T.streaks /\ k \in DOMAIN T2.streaks
             /\ T2.streaks[k] = T.streaks[k]
       /\ \A k \in (DOMAIN T.snaps \cup DOMAIN T2.snaps) \ buckets :
             /\ k \in DOMAIN T.snaps /\ k \in DOMAIN T2.snaps
             /\ T2.snaps[k] = T.snaps[k]

C37_Step ==
    \A i \in DOMAIN sess'.mem.logs \ DOMAIN sess.mem.logs :
        C37_Frame(sess.mem, sess'.mem, i)

\* C37: a submit for user u in category c leaves unchanged the
\* LevelState, Streak, PeriodSnapshot and UserReward rows of every other
\* user, the Streak rows of u for every other category, and every
\* PeriodSnapshot of u other than the day bucket and the week bucket of
\* category c that contain the date of the event.
C37_OthersUnchanged == [][C37_Step]_vars

\* the third submit, of u1 in category 1, came after one of u2 that
\* earned a reward and one of u1 in category 2 on another date
C37_Witness ==
    LET T == sess.mem
    IN /\ DOMAIN T.logs = {1, 2, 3}
       /\ T.logs[1].user_id = "u2"
       /\ T.logs[2].user_id = "u1" /\ T.logs[2].domain_id = 2
       /\ T.logs[3].user_id = "u1" /\ T.logs[3].domain_id = 1
       /\ T.logs[3].occurred_at \div 24 # T.logs[2].occurred_at \div 24
       /\ AggregateRows(T, "u2").user_rewards # {}
       /\ T.streaks[<<"u1", 2>>].current_streak_days = 1
       /\ T.streaks[<<"u1", 1>>].current_streak_days = 1

----------------------------------------------------------------------------
(* Properties of the evaluators for a user without settings (SpecEval) *)

\* C38: for a user with no enabled category setting the stats_balance
\* evaluator returns false for every threshold, also for 0: a condition
\* on all the categories of no category is not taken to hold.
C38_NoEnabledSettingNoBalance ==
    (ret # None /\ EnabledSettings(args.user_id) = {})
    => \A reward \in BalanceRewards : ~Get(ret)[reward]

\* the rewards were evaluated for u4, whose only setting is disabled,
\* after other users logged events; the reward of threshold 0 is there
C38_Witness ==
    /\ ret # None
    /\ args.user_id = "u4"
    /\ EnabledSettings("u4") = {}
    /\ \E st \in UserDomainSettingsTable : st.user_id = "u4"
    /\ \E reward \in BalanceRewards :
           ClaimedThreshold(reward) = 0 /\ ~Get(ret)[reward]
    /\ DOMAIN sess.mem.logs # {}

----------------------------------------------------------------------------
(* Properties of the best streak over time (SpecStreak) *)

\* the streak row after update_streak calls on the given dates
RECURSIVE StreakAfter(_)
StreakAfter(dates) ==
    IF dates = <<>> THEN NewStreak
    ELSE StreakStep(StreakAfter(SubSeq(dates, 1, Len(dates) - 1)),
                    dates[Len(dates)])

\* the largest value current_streak_days had after any of the calls
LargestCurrent(dates) ==
    Largest({StreakAfter(SubSeq(dates, 1, n)).current_streak_days :
                n \in 0..Len(dates)})

C39_Step ==
    \A k \in DOMAIN sess'.mem.streaks :
        /\ k \in DOMAIN sess.mem.streaks
           => sess'.mem.streaks[k].best_streak_days
                 >= sess.mem.streaks[k].best_streak_days
        /\ sess'.mem.streaks[k].current_streak_days
              = StreakAfter(DatesOn(hist', k[2])).current_streak_days
        /\ sess'.mem.streaks[k].best_streak_days
              = LargestCurrent(DatesOn(hist', k[2]))

\* C39: across any sequence of update_streak calls for a (user,
\* category), best_streak_days never decreases and always equals the
\* largest value current_streak_days has taken so far.
C39_BestIsLargestCurrent == [][C39_Step]_vars

\* a streak of three days was followed by a gap: the current streak is 1
\* and the best is still 3
C39_Witness ==
    /\ Len(hist) = 4
    /\ \E k \in DOMAIN sess.mem.streaks :
          /\ Len(DatesOn(hist, k[2])) = 4
          /\ sess.mem.streaks[k].current_streak_days = 1
          /\ sess.mem.streaks[k].best_streak_days = 3
          /\ LargestCurrent(DatesOn(hist, k[2])) = 3

====
